---- MODULE Spec2Model ----
(***************************************************************************)
(* A model of the sagemaker-101-workshop notebooks: the cells whose        *)
(* behaviour the specification makes statements about.  Each group of      *)
(* cells is a small state machine over its own variables; a specification  *)
(* (SpecHPO, SpecNB, ...) runs one group and leaves the other groups'      *)
(* variables parked at their idle values.                                  *)
(***************************************************************************)
EXTENDS Integers, Sequences, FiniteSets, TLC

VARIABLES
    \* the "wait until HPO is finished" cell
    hpo_pc,          \* position of the cell: init, test, body, query, print, done, error
    hpo_state,       \* the Python variable hpo_state ("None" is Python's None)
    tuning_status,   \* HyperParameterTuningJobStatus held by the service
    queries,         \* describe_hyper_parameter_tuning_job calls that returned (saturating)
    sleeps,          \* time.sleep(60) calls made (saturating)
    dashes,          \* "-" characters printed (saturating)
    since_query,     \* sleeps made since the last query returned (or since the cell began)
    waited,          \* seconds slept since the last query returned (saturating)
    printed,         \* the state printed by the final print, "" before it
    \* a train-and-deploy notebook (scikit-learn, PyTorch or Keras headline classifier)
    nb_kind,         \* which notebook: "sklearn", "pytorch", "keras"
    nb_cell,         \* index in Cells(nb_kind) of the cell that runs next
    nb_run,          \* "idle", or "blocked" while the running cell waits for the service
    nb_out,          \* per cell: "-" (not run), "ok" or "raised"
    job_status,      \* TrainingJobStatus of the job estimator.fit made, "None" without one
    model_artifact,  \* the Python variable model_artifact: "undef" or "s3"
    model_obj,       \* whether the Python variable model (SKLearnModel) is bound
    predictor,       \* whether the Python variable predictor is bound
    sm_model,        \* whether a SageMaker Model exists
    endpoint_config, \* "none", "exists", "deleted"
    endpoint,        \* "none", "Creating", "InService", "Failed", "deleted"
    invocations,     \* requests the endpoint has served
    widget,          \* whether the classify widget is displayed
    click_errors,    \* whether a click on the widget has raised
    \* the cells of the notebooks that touch files (headline, MNIST, scikit-learn)
    fs_files,        \* the files that exist, each <<directory, name, number>>
    fs_pc,           \* per notebook: 0 not started, k the step of Program that runs
                     \* next, Len+1 finished, -1 a step raised
    fs_mod,          \* per notebook: the files it has created, overwritten or deleted
    fs_use,          \* per notebook: the files it has read, created, overwritten or deleted
    train_remove,    \* per notebook: set(train_files) ^ set(train_files_to_keep), the files
                     \* the first deletion loop has still to remove (MNIST)
    test_remove,     \* per notebook: set(test_files) ^ set(test_files_to_keep), likewise
    pending,         \* per notebook: what the running rm or tar, or the running loop over a
                     \* listing, has still to visit
    \* the train/test split cells
    sp_pc,           \* "start", "split" (the split is made), "frames", "raised"
    sp_data,         \* the rows of the feature array (data.data, padded_docs): row numbers
    sp_target,       \* the label of each row (data.target, encoded_y)
    sp_test_size,    \* test_size as <<numerator, denominator>>
    sp_X_train,      \* X_train, X_test, y_train, y_test as the split returned them
    sp_X_test,
    sp_y_train,
    sp_y_test,
    sp_trainX,       \* the frames trainX and testX: rows <<features, target>>
    sp_testX,
    \* sklearn_training_script.py
    sk_name,         \* __name__: "__main__" when run as a script, else the module name
    sk_argv,         \* the command line: option -> <<value>>, or <<>> when not given
    sk_env,          \* os.environ: variable -> <<dir>>, or <<>> when not set
    sk_pc,           \* position in the module: "start", "guard", a step, "done", "imported",
                     \* "error" (an exception ended the run), "exit" (--help ended it)
    sk_args,         \* args after parse_known_args
    sk_fs,           \* the file system: path -> content
    sk_fs0,          \* the file system when the module started
    sk_train_df,     \* train_df, test_df: the frames read
    sk_test_df,
    sk_sets,         \* X_train, X_test, y_train, y_test
    sk_model,        \* the fitted model
    sk_defined,      \* the module's functions defined so far
    sk_log,          \* the steps of the __main__ block begun so far, in order
    sk_written,      \* the paths this run has written
    sk_loaded,       \* model_fn's call: <<model_dir, model>> returned, <<model_dir>> raised, <<>> not called
    sk_printed,      \* the percentiles whose 'AE-at-...' line has been printed, in order
    \* classify(text) of the headline notebooks
    tk_nb,           \* the notebook: "local" or "sagemaker"
    tk_oov,          \* whether the tokenizer has an out-of-vocabulary token
    tk_text,         \* the headline last classified: a sequence of words and punctuation
    tk_encoded,      \* encoded_example[0]
    tk_padded,       \* padded_example[0]
    tk_passed,       \* the sequence handed to model.predict / predictor.predict
    tk_result,       \* "none" before any call, "ok", "error" when predict rejects the input
    tk_cell,         \* the cells run so far: "start", "tokenized", "embedded"
    tk_word_index,   \* tokenizer.word_index: word -> index
    tk_built_index,  \* the word_index as tokenize_and_pad_docs returned it
    tk_embedding_index,  \* the word -> row mapping get_word_embeddings built the matrix with
    \* the MNIST Local notebook: load, shuffle, pre-process, fit, explore
    mn_format,       \* K.image_data_format(): "channels_first" or "channels_last"
    mn_px,           \* the largest pixel value of the PNG files
    mn_dir,          \* split -> folder -> the PNG files in it
    mn_pc,           \* "load", "shuffle_train", "shuffle_test", "preprocess", "fit", "explore", "done", "error"
    mn_ix,           \* ix_label of the load loop
    mn_x_train,      \* x_train, x_test: one record per sample (file, shape, px)
    mn_x_test,
    mn_y_train,      \* y_train, y_test: one label per sample
    mn_y_test,
    mn_handed,       \* the images handed to the model so far: (role, shape, px)
    \* the MNIST "Prepare the Data" cell of one notebook, run once or again
    pr_nb,           \* the notebook: "mnist_local" or "mnist_exercise"
    pr_archive,      \* <<training images, testing images>> in mnist_png.tgz
    pr_files,        \* the files under local_dir
    pr_pc,           \* the cell's next step: "rm", "cp", "tar", "glob", "remove_train", "remove_test", "done"
    pr_train_files,  \* train_files, test_files
    pr_test_files,
    pr_keep,         \* <<train_files_to_keep, test_files_to_keep>>
    pr_pending,      \* the files the running deletion loop still has to visit
    pr_removed,      \* the files os.remove was called on in this run of the cell, in order
    pr_runs,         \* the runs of the cell that are over
    pr_first         \* the files under local_dir when the first run was over

hpoVars ==
    <<hpo_pc, hpo_state, tuning_status, queries, sleeps, dashes, since_query, waited, printed>>

nbVars == <<nb_kind, nb_cell, nb_run, nb_out, job_status, model_artifact, model_obj,
            predictor, sm_model, endpoint_config, endpoint, invocations, widget,
            click_errors>>

fsVars == <<fs_files, fs_pc, fs_mod, fs_use, train_remove, test_remove, pending>>

spVars == <<sp_pc, sp_data, sp_target, sp_test_size, sp_X_train, sp_X_test, sp_y_train,
            sp_y_test, sp_trainX, sp_testX>>

skVars == <<sk_name, sk_argv, sk_env, sk_pc, sk_args, sk_fs, sk_fs0, sk_train_df, sk_test_df,
            sk_sets, sk_model, sk_defined, sk_log, sk_written, sk_loaded, sk_printed>>

tkVars == <<tk_nb, tk_oov, tk_text, tk_encoded, tk_padded, tk_passed, tk_result, tk_cell,
            tk_word_index, tk_built_index, tk_embedding_index>>

mnVars == <<mn_format, mn_px, mn_dir, mn_pc, mn_ix, mn_x_train, mn_x_test, mn_y_train, mn_y_test,
            mn_handed>>

prVars == <<pr_nb, pr_archive, pr_files, pr_pc, pr_train_files, pr_test_files, pr_keep,
            pr_pending, pr_removed, pr_runs, pr_first>>

vars == <<hpoVars, nbVars, fsVars, spVars, skVars, tkVars, mnVars, prVars>>

\* what the cells of one group leave alone: the variables of the other groups
notHPO == <<nbVars, fsVars, spVars, skVars, tkVars, mnVars, prVars>>
notNB == <<hpoVars, fsVars, spVars, skVars, tkVars, mnVars, prVars>>
notFS == <<hpoVars, nbVars, spVars, skVars, tkVars, mnVars, prVars>>
notSP == <<hpoVars, nbVars, fsVars, skVars, tkVars, mnVars, prVars>>
notSK == <<hpoVars, nbVars, fsVars, spVars, tkVars, mnVars, prVars>>
notTK == <<hpoVars, nbVars, fsVars, spVars, skVars, mnVars, prVars>>
notMN == <<hpoVars, nbVars, fsVars, spVars, skVars, tkVars, prVars>>
notPR == <<hpoVars, nbVars, fsVars, spVars, skVars, tkVars, mnVars>>

Min(a, b) == IF a < b THEN a ELSE b

(***************************************************************************)
(* The values a group's variables are parked at while another group runs.  *)
(***************************************************************************)

CellNames == {"fit", "wait", "model", "deploy", "predict", "widget", "delete"}

IdleHPO ==
    /\ hpo_pc = "init"
    /\ hpo_state = "None"
    /\ tuning_status = "InProgress"
    /\ queries = 0
    /\ sleeps = 0
    /\ dashes = 0
    /\ since_query = 0
    /\ waited = 0
    /\ printed = ""

IdleNB ==
    /\ nb_kind = "sklearn"
    /\ nb_cell = 1
    /\ nb_run = "idle"
    /\ nb_out = [c \in CellNames |-> "-"]
    /\ job_status = "None"
    /\ model_artifact = "undef"
    /\ model_obj = FALSE
    /\ predictor = FALSE
    /\ sm_model = FALSE
    /\ endpoint_config = "none"
    /\ endpoint = "none"
    /\ invocations = 0
    /\ widget = FALSE
    /\ click_errors = FALSE

Notebooks ==
    {"keras_local", "keras_sagemaker", "torch_local", "torch_sagemaker",
     "mnist_local", "mnist_exercise", "sklearn"}

\* no notebook has run: of the directories the notebooks name there is only
\* the folder the scikit-learn notebook is in
IdleFS ==
    /\ fs_files = {<<"custom_sklearn_rf", "", 0>>}
    /\ fs_pc = [n \in Notebooks |-> 0]
    /\ fs_mod = [n \in Notebooks |-> {}]
    /\ fs_use = [n \in Notebooks |-> {}]
    /\ train_remove = [n \in Notebooks |-> {}]
    /\ test_remove = [n \in Notebooks |-> {}]
    /\ pending = [n \in Notebooks |-> {}]

IdleSP ==
    /\ sp_pc = "start"
    /\ sp_data = <<>>
    /\ sp_target = <<>>
    /\ sp_test_size = <<1, 4>>
    /\ sp_X_train = <<>>
    /\ sp_X_test = <<>>
    /\ sp_y_train = <<>>
    /\ sp_y_test = <<>>
    /\ sp_trainX = <<>>
    /\ sp_testX = <<>>

IdleSK ==
    /\ sk_name = "__main__"
    /\ sk_argv = <<>>
    /\ sk_env = <<>>
    /\ sk_pc = "start"
    /\ sk_args = <<>>
    /\ sk_fs = <<>>
    /\ sk_fs0 = <<>>
    /\ sk_train_df = <<>>
    /\ sk_test_df = <<>>
    /\ sk_sets = <<>>
    /\ sk_model = <<>>
    /\ sk_defined = {}
    /\ sk_log = <<>>
    /\ sk_written = {}
    /\ sk_loaded = <<>>
    /\ sk_printed = <<>>

IdleTK ==
    /\ tk_nb = "local"
    /\ tk_oov = FALSE
    /\ tk_text = <<>>
    /\ tk_encoded = <<>>
    /\ tk_padded = <<>>
    /\ tk_passed = <<>>
    /\ tk_result = "none"
    /\ tk_cell = "start"
    /\ tk_word_index = <<>>
    /\ tk_built_index = <<>>
    /\ tk_embedding_index = <<>>

IdleMN ==
    /\ mn_format = "channels_last"
    /\ mn_px = 0
    /\ mn_dir = <<>>
    /\ mn_pc = "load"
    /\ mn_ix = 0
    /\ mn_x_train = <<>>
    /\ mn_x_test = <<>>
    /\ mn_y_train = <<>>
    /\ mn_y_test = <<>>
    /\ mn_handed = {}

IdlePR ==
    /\ pr_nb = "mnist_local"
    /\ pr_archive = <<0, 0>>
    /\ pr_files = {}
    /\ pr_pc = "rm"
    /\ pr_train_files = <<>>
    /\ pr_test_files = <<>>
    /\ pr_keep = <<(<<>>), (<<>>)>>
    /\ pr_pending = {}
    /\ pr_removed = <<>>
    /\ pr_runs = 0
    /\ pr_first = {}

(***************************************************************************)
(* A train-and-deploy notebook: estimator.fit, the deployment to a         *)
(* real-time endpoint, a prediction and the clean-up cell.  A cell that    *)
(* raises ends there; the user may go on to the next cell.                 *)
(***************************************************************************)

Kinds == {"sklearn", "pytorch", "keras"}

\* Largest number of requests sent to the endpoint from the widget.
MaxCalls == 2

\* The cells of a notebook that talk to the service, in notebook order.
Cells(kind) ==
    IF kind = "sklearn"
      THEN <<"fit", "wait", "model", "deploy", "predict", "delete">>
      ELSE <<"fit", "deploy", "widget", "delete">>

TerminalJob == {"Completed", "Failed", "Stopped"}

\* The name of the cell that runs next, "end" after the last one.
CellName ==
    IF nb_cell <= Len(Cells(nb_kind)) THEN Cells(nb_kind)[nb_cell] ELSE "end"

At(c) == CellName = c

\* A fit call that returns as soon as the job is created.
FitNoWait(kind) == kind \notin Kinds

\* sklearn_estimator.fit(..., wait=True); estimator.fit(inputs) waits by default
FitWait(kind) == kind \in Kinds

\* predictor.delete_endpoint(delete_endpoint_config=True)
delete_endpoint_config == TRUE

\* The SDK's check of a job that ended: "Stopped" is only warned about, any
\* other status than "Completed" raises.
JobOk(st) == st \in {"Completed", "Stopped"}

\* The running cell ends with outcome o and the next cell is up.
Finish(o) ==
    /\ nb_out' = [nb_out EXCEPT ![CellName] = o]
    /\ nb_cell' = nb_cell + 1
    /\ nb_run' = "idle"

\* estimator.fit(...): the training job is created; with wait the call blocks
FitStart ==
    /\ At("fit") /\ nb_run = "idle"
    /\ job_status' = "InProgress"
    /\ IF FitWait(nb_kind)
         THEN nb_run' = "blocked" /\ UNCHANGED <<nb_cell, nb_out>>
         ELSE Finish("ok")
    /\ UNCHANGED <<nb_kind, model_artifact, model_obj, predictor, sm_model,
                   endpoint_config, endpoint, invocations, widget, click_errors>>
    /\ UNCHANGED notNB

\* estimator.fit(...) raises before a job exists (upload or CreateTrainingJob fails)
FitCreateRaises ==
    /\ At("fit") /\ nb_run = "idle"
    /\ Finish("raised")
    /\ UNCHANGED <<nb_kind, job_status, model_artifact, model_obj, predictor, sm_model,
                   endpoint_config, endpoint, invocations, widget, click_errors>>
    /\ UNCHANGED notNB

\* the blocked fit call returns once the job has ended, raising unless it is ok
FitReturn ==
    /\ At("fit") /\ nb_run = "blocked"
    /\ job_status \in TerminalJob
    /\ Finish(IF JobOk(job_status) THEN "ok" ELSE "raised")
    /\ UNCHANGED <<nb_kind, job_status, model_artifact, model_obj, predictor, sm_model,
                   endpoint_config, endpoint, invocations, widget, click_errors>>
    /\ UNCHANGED notNB

\* The service runs the training job to an end.
TrainingProgress ==
    /\ job_status = "InProgress"
    /\ job_status' \in TerminalJob
    /\ UNCHANGED <<nb_kind, nb_cell, nb_run, nb_out, model_artifact, model_obj, predictor,
                   sm_model, endpoint_config, endpoint, invocations, widget, click_errors>>
    /\ UNCHANGED notNB

\* sklearn_estimator.latest_training_job.wait(logs='None')
\* model_artifact = sm_boto3.describe_training_job(...)['ModelArtifacts']['S3ModelArtifacts']
WaitDescribe ==
    /\ At("wait") /\ nb_run = "idle"
    /\ job_status # "InProgress"
    /\ IF job_status # "None" /\ JobOk(job_status)
         THEN model_artifact' = "s3" /\ Finish("ok")
         ELSE UNCHANGED model_artifact /\ Finish("raised")
    /\ UNCHANGED <<nb_kind, job_status, model_obj, predictor, sm_model,
                   endpoint_config, endpoint, invocations, widget, click_errors>>
    /\ UNCHANGED notNB

\* model = SKLearnModel(model_data=model_artifact, ...)
ModelCell ==
    /\ At("model") /\ nb_run = "idle"
    /\ IF model_artifact # "undef"
         THEN model_obj' = TRUE /\ Finish("ok")
         ELSE UNCHANGED model_obj /\ Finish("raised")
    /\ UNCHANGED <<nb_kind, job_status, model_artifact, predictor, sm_model,
                   endpoint_config, endpoint, invocations, widget, click_errors>>
    /\ UNCHANGED notNB

\* What deploy needs: the bound model (sklearn), a training job (estimator.deploy).
CanDeploy == IF nb_kind = "sklearn" THEN model_obj ELSE job_status # "None"

\* predictor = model.deploy(...) / estimator.deploy(...): a Model, an endpoint
\* configuration and an endpoint are created and the call waits for the endpoint
DeployStart ==
    /\ At("deploy") /\ nb_run = "idle"
    /\ CanDeploy
    /\ sm_model' = TRUE
    /\ endpoint_config' = "exists"
    /\ endpoint' = "Creating"
    /\ nb_run' = "blocked"
    /\ UNCHANGED <<nb_kind, nb_cell, nb_out, job_status, model_artifact, model_obj,
                   predictor, invocations, widget, click_errors>>
    /\ UNCHANGED notNB

\* the deploy cell raises at once: model is not bound, or there is no training job
DeployRaises ==
    /\ At("deploy") /\ nb_run = "idle"
    /\ ~CanDeploy
    /\ Finish("raised")
    /\ UNCHANGED <<nb_kind, job_status, model_artifact, model_obj, predictor, sm_model,
                   endpoint_config, endpoint, invocations, widget, click_errors>>
    /\ UNCHANGED notNB

\* The service brings the endpoint up, or fails to.
EndpointProgress ==
    /\ endpoint = "Creating"
    /\ endpoint' \in {"InService", "Failed"}
    /\ UNCHANGED <<nb_kind, nb_cell, nb_run, nb_out, job_status, model_artifact, model_obj,
                   predictor, sm_model, endpoint_config, invocations, widget, click_errors>>
    /\ UNCHANGED notNB

\* the blocked deploy call returns the predictor, or raises for a failed endpoint
DeployReturn ==
    /\ At("deploy") /\ nb_run = "blocked"
    /\ endpoint \in {"InService", "Failed"}
    /\ IF endpoint = "InService"
         THEN predictor' = TRUE /\ Finish("ok")
         ELSE UNCHANGED predictor /\ Finish("raised")
    /\ UNCHANGED <<nb_kind, job_status, model_artifact, model_obj, sm_model,
                   endpoint_config, endpoint, invocations, widget, click_errors>>
    /\ UNCHANGED notNB

\* print(predictor.predict(testX[data.feature_names]))
Predict ==
    /\ At("predict") /\ nb_run = "idle"
    /\ IF predictor /\ endpoint = "InService"
         THEN invocations' = invocations + 1 /\ Finish("ok")
         ELSE UNCHANGED invocations /\ Finish("raised")
    /\ UNCHANGED <<nb_kind, job_status, model_artifact, model_obj, predictor, sm_model,
                   endpoint_config, endpoint, widget, click_errors>>
    /\ UNCHANGED notNB

\* def classify(text): ...; interaction = widgets.interact_manual(classify, ...)
\* the cell defines classify and shows the widget; it sends no request itself
WidgetCell ==
    /\ At("widget") /\ nb_run = "idle"
    /\ widget' = TRUE
    /\ Finish("ok")
    /\ UNCHANGED <<nb_kind, job_status, model_artifact, model_obj, predictor, sm_model,
                   endpoint_config, endpoint, invocations, click_errors>>
    /\ UNCHANGED notNB

\* a click on "Classify!": classify(text) calls predictor.predict(...), which
\* raises when predictor is not bound or the endpoint is not in service
Classify ==
    /\ widget /\ nb_run = "idle"
    /\ invocations < MaxCalls
    /\ IF predictor /\ endpoint = "InService"
         THEN invocations' = invocations + 1 /\ UNCHANGED click_errors
         ELSE click_errors' = TRUE /\ UNCHANGED invocations
    /\ UNCHANGED <<nb_kind, nb_cell, nb_run, nb_out, job_status, model_artifact, model_obj,
                   predictor, sm_model, endpoint_config, endpoint, widget>>
    /\ UNCHANGED notNB

\* predictor.delete_endpoint(delete_endpoint_config=True)
DeleteEndpoint ==
    /\ At("delete") /\ nb_run = "idle"
    /\ IF predictor
         THEN /\ endpoint_config' = IF delete_endpoint_config THEN "deleted" ELSE endpoint_config
              /\ endpoint' = "deleted"
              /\ Finish("ok")
         ELSE /\ UNCHANGED <<endpoint_config, endpoint>>
              /\ Finish("raised")
    /\ UNCHANGED <<nb_kind, job_status, model_artifact, model_obj, predictor, sm_model,
                   invocations, widget, click_errors>>
    /\ UNCHANGED notNB

InitNB ==
    /\ nb_kind \in Kinds
    /\ nb_cell = 1
    /\ nb_run = "idle"
    /\ nb_out = [c \in CellNames |-> "-"]
    /\ job_status = "None"
    /\ model_artifact = "undef"
    /\ model_obj = FALSE
    /\ predictor = FALSE
    /\ sm_model = FALSE
    /\ endpoint_config = "none"
    /\ endpoint = "none"
    /\ invocations = 0
    /\ widget = FALSE
    /\ click_errors = FALSE

NextNB ==
    \/ FitStart
    \/ FitCreateRaises
    \/ FitReturn
    \/ TrainingProgress
    \/ WaitDescribe
    \/ ModelCell
    \/ DeployStart
    \/ DeployRaises
    \/ EndpointProgress
    \/ DeployReturn
    \/ Predict
    \/ WidgetCell
    \/ Classify
    \/ DeleteEndpoint

StartNB == InitNB /\ IdleHPO /\ IdleFS /\ IdleSP /\ IdleSK /\ IdleTK /\ IdleMN /\ IdlePR

SpecNB == StartNB /\ [][NextNB]_vars

(***************************************************************************)
(* The HPO wait loop (both headline-classifier SageMaker notebooks).       *)
(***************************************************************************)

\* Largest value the observation counters of the wait loop count to.
MaxPolls == 3

\* Seconds slept between two polls.
PollSeconds == 60

\* The values of HyperParameterTuningJobStatus.
TuningStatuses == {"InProgress", "Completed", "Failed", "Stopping", "Stopped"}

Bump(n) == Min(n + 1, MaxPolls)

\* A loop condition that forgets the "not queried yet" case.
LoopCondNoNone(s) == s = "InProgress"

\* A loop condition that never lets the loop end.
LoopCondAlways(s) == s = s

\* while hpo_state is None or hpo_state == "InProgress":
LoopCond(s) == s = "None" \/ s = "InProgress"

\* The sleep is made on every pass, the first one too.
SleepCondAlways(s) == s = s

\* if hpo_state is not None:
SleepCond(s) == s # "None"

\* hpo_state = None; smclient = boto3.Session().client("sagemaker")
HpoStart ==
    /\ hpo_pc = "init"
    /\ hpo_state' = "None"
    /\ hpo_pc' = "test"
    /\ UNCHANGED <<tuning_status, queries, sleeps, dashes, since_query, waited, printed>>
    /\ UNCHANGED notHPO

\* the while condition is evaluated
HpoTest ==
    /\ hpo_pc = "test"
    /\ hpo_pc' = IF LoopCond(hpo_state) THEN "body" ELSE "print"
    /\ UNCHANGED <<hpo_state, tuning_status, queries, sleeps, dashes, since_query, waited, printed>>
    /\ UNCHANGED notHPO

\* if hpo_state is not None: print("-", end=""); time.sleep(60)
HpoBody ==
    /\ hpo_pc = "body"
    /\ IF SleepCond(hpo_state)
         THEN /\ dashes' = Bump(dashes)
              /\ sleeps' = Bump(sleeps)
              /\ since_query' = Bump(since_query)
              /\ waited' = Min(waited + PollSeconds, MaxPolls * PollSeconds)
         ELSE UNCHANGED <<dashes, sleeps, since_query, waited>>
    /\ hpo_pc' = "query"
    /\ UNCHANGED <<hpo_state, tuning_status, queries, printed>>
    /\ UNCHANGED notHPO

\* hpo_state = smclient.describe_hyper_parameter_tuning_job(...)["HyperParameterTuningJobStatus"]
HpoQuery ==
    /\ hpo_pc = "query"
    /\ hpo_state' = tuning_status
    /\ queries' = Bump(queries)
    /\ since_query' = 0
    /\ waited' = 0
    /\ hpo_pc' = "test"
    /\ UNCHANGED <<tuning_status, sleeps, dashes, printed>>
    /\ UNCHANGED notHPO

\* the describe call raises (throttling, expired credentials, no such job):
\* the error is not caught and the cell ends there
HpoQueryRaises ==
    /\ hpo_pc = "query"
    /\ hpo_pc' = "error"
    /\ UNCHANGED <<hpo_state, tuning_status, queries, sleeps, dashes, since_query, waited, printed>>
    /\ UNCHANGED notHPO

\* print("\nHPO state:", hpo_state)
HpoPrint ==
    /\ hpo_pc = "print"
    /\ printed' = hpo_state
    /\ hpo_pc' = "done"
    /\ UNCHANGED <<hpo_state, tuning_status, queries, sleeps, dashes, since_query, waited>>
    /\ UNCHANGED notHPO

\* The service moves the tuning job on: a job in progress completes, fails or
\* is asked to stop; a stopping job becomes stopped.  No status returns to
\* InProgress.
TuningProgress ==
    /\ \/ /\ tuning_status = "InProgress"
          /\ tuning_status' \in {"Completed", "Failed", "Stopping"}
       \/ /\ tuning_status = "Stopping"
          /\ tuning_status' = "Stopped"
    /\ UNCHANGED <<hpo_pc, hpo_state, queries, sleeps, dashes, since_query, waited, printed>>
    /\ UNCHANGED notHPO

HpoStep == HpoStart \/ HpoTest \/ HpoBody \/ HpoQuery \/ HpoPrint

InitHPO ==
    /\ hpo_pc = "init"
    /\ hpo_state = "None"
    /\ tuning_status \in TuningStatuses
    /\ queries = 0
    /\ sleeps = 0
    /\ dashes = 0
    /\ since_query = 0
    /\ waited = 0
    /\ printed = ""

NextHPO ==
    \/ HpoStart
    \/ HpoTest
    \/ HpoBody
    \/ HpoQuery
    \/ HpoQueryRaises
    \/ HpoPrint
    \/ TuningProgress

StartHPO == InitHPO /\ IdleNB /\ IdleFS /\ IdleSP /\ IdleSK /\ IdleTK /\ IdleMN /\ IdlePR

SpecHPO == StartHPO /\ [][NextHPO]_vars

\* The kernel runs the cell's statements one after another once the cell is
\* started; nothing makes the service finish a job.
FairSpecHPO == StartHPO /\ [][NextHPO]_vars /\ WF_vars(HpoStep)

(***************************************************************************)
(* The cells of the notebooks that touch files, as steps on one file       *)
(* system: the data preparation of the Keras and of the PyTorch            *)
(* headline-classifier notebooks (Local and SageMaker), of the two MNIST   *)
(* notebooks and of the scikit-learn notebook, and the cells of the MNIST  *)
(* Local notebook that read the images.  Notebooks may run at the same     *)
(* time: their steps interleave.  A step is one system call of a command   *)
(* or of a library function that makes several (rm: listing, unlink,       *)
(* rmdir; tar: opening the archive, entering the directory, create,        *)
(* unlink, mkdir, stat; os.makedirs: stat, mkdir, stat), so that a step of *)
(* another notebook may come between any two of them.                      *)
(***************************************************************************)

\* Images in the training and in the testing directory of the MNIST archive.
MnistTrain == 2
MnistTest == 1

\* reduction_factor = 2
reduction_factor == 2

\* the example a notebook belongs to; the Local and the SageMaker notebook of
\* an example are in one folder
Example(n) ==
    CASE n \in {"keras_local", "keras_sagemaker"} -> "keras_nlp"
      [] n \in {"torch_local", "torch_sagemaker"} -> "pytorch_nlp"
      [] n \in {"mnist_local", "mnist_exercise"} -> "mnist"
      [] OTHER -> "sklearn"

\* local_dir = "data" and "./data/..." (relative to the folder of the
\* example's notebooks) and local_dir = "/tmp/mnist"; the scikit-learn
\* notebook names data/, source/ and model/ in its folder, which stands for
\* its local_dir here
local_dir(n) ==
    CASE Example(n) = "keras_nlp" -> "custom_tensorflow_keras_nlp/data"
      [] Example(n) = "pytorch_nlp" -> "custom_pytorch_nlp/data"
      [] Example(n) = "mnist" -> "/tmp/mnist"
      [] OTHER -> "custom_sklearn_rf"

File(n, name, k) == <<local_dir(n), name, k>>

\* the directories below local_dir, and "" for local_dir itself; the images
\* of the MNIST archive are in a directory per label, training/<label>/ and
\* testing/<label>/; the label here is "2" (label = "2" of Explore Results)
DirNames ==
    {"", "training/", "testing/", "training/2/", "testing/2/", "embeddings/", "train/", "test/",
     "ag_news_csv/", "data/", "source/", "model/"}

\* a directory is an entry of the file system like a file
Dir(n, sub) == File(n, sub, 0)

\* local_dir itself, as a directory
Root(n) == Dir(n, "")

\* a regular file that has the name of local_dir: what aws s3 cp writes when
\* its target is not an existing directory
RootFile(n) == File(n, "", 1)

\* the name, in local_dir, of the images of a part ("training" or "testing")
\* and of the directory they are in, {training_dir}/<label>/<i>.png being
\* image i of "training"
ImageName(part) == IF part = "training" THEN "training/2" ELSE "testing/2"

LabelDirName(part) == IF part = "training" THEN "training/2/" ELSE "testing/2/"

Image(n, part, i) == File(n, ImageName(part), i)

\* {training_dir}/<label> and {testing_dir}/<label>
LabelDir(n, part) == Dir(n, LabelDirName(part))

IsDir(f) == f[2] \in DirNames /\ f[3] = 0

\* the directory a file or a directory is an entry of ("" at the top)
ParentName(name) ==
    CASE name = "training/2" -> "training/2/"
      [] name = "testing/2" -> "testing/2/"
      [] name = "training/2/" -> "training/"
      [] name = "testing/2/" -> "testing/"
      [] name \in {"embeddings/vectors", "embeddings/docs-embedding-matrix.npy"} -> "embeddings/"
      [] name \in {"train/train_X.npy", "train/train_Y.npy"} -> "train/"
      [] name \in {"test/test_X.npy", "test/test_Y.npy"} -> "test/"
      [] name = "ag_news_csv/train.csv" -> "ag_news_csv/"
      [] name \in {"data/boston_train.csv", "data/boston_test.csv"} -> "data/"
      [] name = "source/sklearn_training_script.py" -> "source/"
      [] name = "model/model.joblib" -> "model/"
      [] OTHER -> ""

Parent(f) == <<f[1], ParentName(f[2]), 0>>

\* the directories on the path to an entry
RECURSIVE Ancestors(_)
Ancestors(f) == IF f[2] = "" THEN {} ELSE {Parent(f)} \cup Ancestors(Parent(f))

\* entries together with the directories on their paths that are not there yet
WithParents(S) == S \cup ((UNION {Ancestors(f) : f \in S}) \ fs_files)

\* the archive that aws s3 cp downloads
Tgz(n) ==
    File(n, IF Example(n) = "keras_nlp" THEN "ag_news_csv.tgz" ELSE "mnist_png.tgz", 0)

\* the members of the archive a notebook downloads, in the order tar zxf
\* unpacks them
ArchiveSeq(n) ==
    IF Example(n) = "keras_nlp"
      THEN <<File(n, "train.csv", 0), File(n, "test.csv", 0)>>
      ELSE <<Dir(n, "training/"), LabelDir(n, "training")>>
              \o [i \in 1..MnistTrain |-> Image(n, "training", i)]
              \o <<Dir(n, "testing/"), LabelDir(n, "testing")>>
              \o [i \in 1..MnistTest |-> Image(n, "testing", i)]

MemberSeq ==
    [keras_local |-> ArchiveSeq("keras_local"),
     keras_sagemaker |-> ArchiveSeq("keras_sagemaker"),
     mnist_local |-> ArchiveSeq("mnist_local"),
     mnist_exercise |-> ArchiveSeq("mnist_exercise")]

\* the files and directories that tar zxf unpacks
Members(n) == {MemberSeq[n][i] : i \in 1..Len(MemberSeq[n])}

\* os.makedirs(f"{local_dir}/train", exist_ok=True) as the system calls it
\* makes: path.exists(head); mkdir(head) and, when that fails,
\* path.isdir(head), both only when head was not there; mkdir(name); and,
\* when that fails, path.isdir(name)
Makedirs(sub) ==
    <<(<<"exists", sub>>), (<<"mkdir_head", sub>>), (<<"isdir_head", sub>>),
      (<<"os_mkdir", sub>>), (<<"isdir", sub>>)>>

\* the cells of the headline-classifier notebooks from reading the CSV file
\* to saving the splits
HeadlineCells(csv) ==
    <<(<<"read_csv", csv>>), (<<"embeddings", "embeddings/vectors">>),
      (<<"embeddings_fetch", "embeddings/vectors">>), (<<"embeddings_load", "embeddings/vectors">>),
      (<<"save", "embeddings/docs-embedding-matrix.npy">>)>>
        \o Makedirs("train/")
        \o <<(<<"save", "train/train_X.npy">>), (<<"save", "train/train_Y.npy">>)>>
        \o Makedirs("test/")
        \o <<(<<"save", "test/test_X.npy">>), (<<"save", "test/test_Y.npy">>)>>

\* !rm -rf {local_dir}; !mkdir -p {local_dir}; !aws s3 cp ...; !tar zxf ...
Fetch ==
    <<(<<"rm", "">>), (<<"rm_run", "">>), (<<"mkdir", "">>), (<<"cp", "">>),
      (<<"tar", "">>), (<<"tar_cd", "">>), (<<"tar_run", "">>)>>

\* the two file listings and the two deletion loops of the MNIST notebooks
Reduce ==
    <<(<<"glob_train", "">>), (<<"glob_test", "">>),
      (<<"remove_train", "">>), (<<"remove_test", "">>)>>

\* the statements of a notebook's cells that touch files, in cell order, each
\* with the name it is given; a command or a function that makes several
\* system calls is a step for each of them, or a step that starts it and a
\* step in which it runs
Program ==
    [keras_local |-> Fetch \o HeadlineCells("train.csv"),
     keras_sagemaker |-> SubSeq(Fetch, 3, Len(Fetch)) \o HeadlineCells("train.csv")
                            \o <<(<<"s3_sync", "">>)>>,
     torch_local |-> <<(<<"download_dataset", "ag_news_csv/train.csv">>)>>
                        \o HeadlineCells("ag_news_csv/train.csv"),
     torch_sagemaker |-> <<(<<"download_dataset", "ag_news_csv/train.csv">>)>>
                            \o HeadlineCells("ag_news_csv/train.csv")
                            \o <<(<<"upload_data", "train/">>), (<<"upload_data", "test/">>),
                                 (<<"upload_data", "embeddings/docs-embedding-matrix.npy">>)>>,
     mnist_local |-> Fetch \o Reduce
                        \o <<(<<"list_labels", "">>), (<<"list_train", "">>), (<<"open_train", "">>),
                             (<<"list_test", "">>), (<<"open_test", "">>),
                             (<<"explore_list", "">>), (<<"explore_open", "">>)>>,
     mnist_exercise |-> Fetch \o Reduce \o <<(<<"s3_sync", "">>), (<<"main", "">>)>>,
     sklearn |-> <<(<<"mkdir", "data/">>), (<<"mkdir", "source/">>), (<<"mkdir", "model/">>),
                   (<<"save", "data/boston_train.csv">>), (<<"save", "data/boston_test.csv">>),
                   (<<"save", "source/sklearn_training_script.py">>),
                   (<<"script_read", "source/sklearn_training_script.py">>),
                   (<<"script_read", "data/boston_train.csv">>),
                   (<<"script_read", "data/boston_test.csv">>),
                   (<<"script_save", "model/model.joblib">>),
                   (<<"upload_data", "data/boston_train.csv">>),
                   (<<"upload_data", "data/boston_test.csv">>)>>]

Started == {m \in Notebooks : fs_pc[m] # 0}

Step(n) == IF fs_pc[n] = 0 THEN 1 ELSE fs_pc[n]

\* notebook n is about to run the step called name; two notebooks are run,
\* at the same time or one after the other
AtStep(n, name) ==
    /\ Step(n) \in 1..Len(Program[n])
    /\ Program[n][Step(n)][1] = name
    /\ fs_pc[n] # 0 \/ Cardinality(Started) <= 1

\* what the step that notebook n is about to run is given: a name below local_dir
Arg(n) == Program[n][Step(n)][2]

\* the position of the first step called name in the cells of notebook n
StepOf(n, name) ==
    CHOOSE k \in 1..Len(Program[n]) :
        /\ Program[n][k][1] = name
        /\ \A j \in 1..(k - 1) : Program[n][j][1] # name

InDir(n) == {f \in fs_files : f[1] = local_dir(n)}

\* sorted(list(...)) of a set of files of one directory
RECURSIVE SortedSeq(_)
SortedSeq(S) ==
    IF S = {} THEN <<>>
    ELSE LET m == CHOOSE x \in S : \A y \in S : x[3] <= y[3]
         IN  <<m>> \o SortedSeq(S \ {m})

\* The slice started at the second file: files[1::k].
EveryNthFromSecond(files, k) ==
    [i \in 1..(Len(files) \div k) |-> files[(i - 1) * k + 2]]

\* files[::k]
EveryNth(files, k) ==
    [i \in 1..((Len(files) + k - 1) \div k) |-> files[(i - 1) * k + 1]]

Range(q) == {q[i] : i \in 1..Len(q)}

\* set(a) ^ set(b)
SymDiff(a, b) == (Range(a) \ Range(b)) \cup (Range(b) \ Range(a))

\* notebook n reads, writes and deletes entries and is then at step next
Act(n, reads, writes, deletes, next) ==
    /\ fs_files' = (fs_files \ deletes) \cup writes
    /\ fs_mod' = [fs_mod EXCEPT ![n] = @ \cup writes \cup deletes]
    /\ fs_use' = [fs_use EXCEPT ![n] = @ \cup reads \cup writes \cup deletes]
    /\ fs_pc' = [fs_pc EXCEPT ![n] = next]

\* notebook n reads, writes and deletes entries and goes on to its next step
Touch(n, reads, writes, deletes) == Act(n, reads, writes, deletes, Step(n) + 1)

\* a step of notebook n raises: the cell ends and the notebook stops there
Raise(n) ==
    /\ fs_pc' = [fs_pc EXCEPT ![n] = -1]
    /\ UNCHANGED <<fs_files, fs_mod, fs_use>>

\* the entries of a directory
Children(d, files) == {f \in files : f # d /\ f[2] # "" /\ Parent(f) = d}

\* in the list of what rm has still to do: a directory it has listed and is
\* emptying
Entered(d) == <<d[1], d[2], -1>>

\* in the list of what rm has still to do: a directory it will not remove,
\* because it failed to remove something below it
Declined(d) == <<d[1], d[2], -2>>

\* in the list of what tar has still to do: the directory tar entered at its
\* start (-C {local_dir}/) has been removed since
CwdGone(n) == <<local_dir(n), "", -3>>

\* in the list of what tar has still to do: creating the member it works on
\* failed because the name is taken (EEXIST)
Taken(n) == <<local_dir(n), "", -4>>

\* in the list of what tar has still to do: the directory member it works on
\* had its name taken, and then nothing was found under the name (stat failed)
Vanished(n) == <<local_dir(n), "", -7>>

\* in the list of what tar has still to do: tar has made a directory on the
\* path to the member it works on (interdir_made)
Made(n) == <<local_dir(n), "", -5>>

\* in the list of what tar has still to do: creating the member it works on
\* failed because a directory on its path is missing (ENOENT), and tar is
\* making the directories of the path, of which a comes next
Making(a) == <<a[1], a[2], -6>>

EnteredBy(n) == {d \in {Dir(n, sub) : sub \in DirNames} : Entered(d) \in pending[n]}

\* the directory rm is emptying now: the deepest it has entered
Current(n) == CHOOSE d \in EnteredBy(n) : \A c \in EnteredBy(n) : c = d \/ Parent(c) # d

\* the entries rm has listed in the directory it is emptying that are there
Listed(n) == pending[n] \cap Children(Current(n), fs_files)

\* rm is about to remove directory d: rmdir is not tried when something
\* below d could not be removed, and fails when d is not empty
RmdirWorks(n, d) == Declined(d) \notin pending[n] /\ Children(d, fs_files) = {}

\* notebook m is in its tar command and has entered local_dir
Untarring(m) ==
    /\ fs_pc[m] \in 1..Len(Program[m])
    /\ Program[m][fs_pc[m]][1] = "tar_run"

\* !rm -rf {local_dir}: the command starts by listing local_dir; nothing to
\* list when local_dir does not exist, and a regular file of that name is
\* removed at once
FsRmRfStart(n) ==
    /\ AtStep(n, "rm")
    /\ IF Root(n) \in fs_files
         THEN /\ pending' = [pending EXCEPT ![n] =
                               {Entered(Root(n))} \cup Children(Root(n), fs_files)]
              /\ Touch(n, {Root(n)} \cup Children(Root(n), fs_files), {}, {})
         ELSE /\ pending' = [pending EXCEPT ![n] = {}]
              /\ Act(n, {}, {}, {RootFile(n)} \cap fs_files, Step(n) + 2)
    /\ UNCHANGED <<train_remove, test_remove>>
    /\ UNCHANGED notFS

\* rm goes through the listing of the directory it is emptying, in the order
\* the file system gave it, one system call at a time: it unlinks a file; it
\* lists a directory below, which it empties next; and when nothing of its
\* listing is left it removes the directory with rmdir, which fails when
\* another notebook has put a file there since the listing.  A failing rmdir
\* does not stop rm, but rm then leaves the directories above in place.
FsRmRf(n) ==
    /\ AtStep(n, "rm_run")
    /\ LET d == Current(n)
       IN  \/ \E e \in Listed(n) :
                IF IsDir(e)
                  THEN /\ pending' = [pending EXCEPT ![n] =
                                        (@ \ {e}) \cup {Entered(e)} \cup Children(e, fs_files)]
                       /\ Act(n, {e} \cup Children(e, fs_files), {}, {}, Step(n))
                  ELSE /\ pending' = [pending EXCEPT ![n] = @ \ {e}]
                       /\ Act(n, {}, {}, {e}, Step(n))
           \/ /\ d # Root(n)
              /\ Listed(n) = {}
              /\ pending' = [pending EXCEPT ![n] =
                               {x \in @ : /\ x \notin {Entered(d), Declined(d)}
                                          /\ x[3] < 0 \/ Parent(x) # d}
                                  \cup (IF RmdirWorks(n, d) THEN {}
                                        ELSE {Declined(a) : a \in Ancestors(d)})]
              /\ Act(n, {}, {}, IF RmdirWorks(n, d) THEN {d} \cap fs_files ELSE {}, Step(n))
    /\ UNCHANGED <<train_remove, test_remove>>
    /\ UNCHANGED notFS

\* rm has gone through the listing of local_dir and removes local_dir itself,
\* unless something in it could not be removed; rm ends (a failing shell
\* command does not raise: the cell goes on).  A tar that another notebook
\* runs in local_dir stays in the directory that is removed.
FsRmRfEnd(n) ==
    /\ AtStep(n, "rm_run")
    /\ Current(n) = Root(n)
    /\ Listed(n) = {}
    /\ LET removed == IF RmdirWorks(n, Root(n)) THEN {Root(n)} \cap fs_files ELSE {}
       IN  /\ pending' = [m \in Notebooks |->
                            IF m = n THEN {}
                            ELSE IF /\ removed # {}
                                    /\ local_dir(m) = local_dir(n)
                                    /\ Untarring(m)
                                   THEN pending[m] \cup {CwdGone(m)}
                                   ELSE pending[m]]
           /\ Touch(n, {}, {}, removed)
    /\ UNCHANGED <<train_remove, test_remove>>
    /\ UNCHANGED notFS

\* !mkdir -p {local_dir}, and ! mkdir -p data (source, model) in the folder
\* of the scikit-learn notebook: fails, without raising, when a regular file
\* has that name
FsMkdir(n) ==
    /\ AtStep(n, "mkdir")
    /\ Touch(n, {},
             IF RootFile(n) \in fs_files
               THEN {} ELSE {Dir(n, Arg(n))} \ fs_files,
             {})
    /\ UNCHANGED <<train_remove, test_remove, pending>>
    /\ UNCHANGED notFS

\* !aws s3 cp s3://.../<archive>.tgz {local_dir}: the archive is written
\* into local_dir, or under the name local_dir when that is no directory;
\* or the download fails, which does not raise: the cell goes on
FsDownload(n) ==
    /\ AtStep(n, "cp")
    /\ \/ Touch(n, {}, IF Root(n) \in fs_files THEN {Tgz(n)} ELSE {RootFile(n)}, {})
       \/ Touch(n, {}, {}, {})
    /\ UNCHANGED <<train_remove, test_remove, pending>>
    /\ UNCHANGED notFS

\* !tar zxf {local_dir}/<archive>.tgz -C {local_dir}/ --strip-components=1:
\* tar opens the archive, which it goes on reading whatever becomes of the
\* name; when it cannot, it fails (a failing shell command does not raise:
\* the cell goes on)
FsUntarStart(n) ==
    /\ AtStep(n, "tar")
    /\ IF Tgz(n) \in fs_files
         THEN Touch(n, {Tgz(n)}, {}, {})
         ELSE Act(n, {}, {}, {}, Step(n) + 3)
    /\ UNCHANGED <<train_remove, test_remove, pending>>
    /\ UNCHANGED notFS

\* -C {local_dir}/: with the archive open, tar enters local_dir, the
\* directory of that name at this moment, and has all members to unpack;
\* when there is no such directory, it fails
FsUntarChdir(n) ==
    /\ AtStep(n, "tar_cd")
    /\ IF Root(n) \in fs_files
         THEN /\ pending' = [pending EXCEPT ![n] = Members(n)]
              /\ Touch(n, {Root(n)}, {}, {})
         ELSE /\ pending' = [pending EXCEPT ![n] = {}]
              /\ Act(n, {}, {}, {}, Step(n) + 2)
    /\ UNCHANGED <<train_remove, test_remove>>
    /\ UNCHANGED notFS

\* tar is unpacking
InTar(n) == AtStep(n, "tar_run") /\ pending[n] \cap Members(n) # {}

\* the member tar works on: the first it has still to unpack
NextMember(n) ==
    LET k == CHOOSE i \in 1..Len(MemberSeq[n]) :
                 /\ MemberSeq[n][i] \in pending[n]
                 /\ \A j \in 1..(i - 1) : MemberSeq[n][j] \notin pending[n]
    IN  MemberSeq[n][k]

\* the directories on the path to a member, below the directory tar is in
Above(n, m) == Ancestors(m) \ {Root(n)}

\* what tar finds under a name: its names are relative to the directory it
\* entered, in which nothing is found once it has been removed
Sees(n, f) == CwdGone(n) \notin pending[n] /\ f \in fs_files

\* tar is done with the member it works on, unpacked or given up with an
\* error message, having written and deleted entries; after the last member
\* the command ends
TarLeaves(n, reads, writes, deletes) ==
    LET rest == (pending[n] \cap (Members(n) \cup {CwdGone(n)})) \ {NextMember(n)}
    IN  IF rest \cap Members(n) = {}
          THEN /\ pending' = [pending EXCEPT ![n] = {}]
               /\ Touch(n, reads, writes, deletes)
          ELSE /\ pending' = [pending EXCEPT ![n] = rest]
               /\ Act(n, reads, writes, deletes, Step(n))

\* tar goes on with the member it works on
TarStays(n, todo, writes, deletes) ==
    /\ pending' = [pending EXCEPT ![n] = todo]
    /\ Act(n, {}, writes, deletes, Step(n))

\* tar creates the member it works on (open with O_CREAT | O_EXCL of a file,
\* mkdir of a directory).  When the name is taken, tar next looks at what
\* has it; when a directory on the path is missing, tar next makes the
\* directories of the path, if there are any; but once it has made them for
\* this member, a create that fails again makes tar give the member up.
FsUntarCreate(n) ==
    /\ InTar(n)
    /\ Taken(n) \notin pending[n]
    /\ Vanished(n) \notin pending[n]
    /\ \A a \in Above(n, NextMember(n)) : Making(a) \notin pending[n]
    /\ LET m == NextMember(n)
       IN  IF Sees(n, m)
             THEN IF IsDir(m) \/ Made(n) \notin pending[n]
                    THEN TarStays(n, pending[n] \cup {Taken(n)}, {}, {})
                    ELSE TarLeaves(n, {}, {}, {})
           ELSE IF Sees(n, Parent(m))
             THEN TarLeaves(n, {}, {m}, {})
           ELSE IF Above(n, m) = {} \/ Made(n) \in pending[n]
             THEN TarLeaves(n, {}, {}, {})
           ELSE TarStays(n, pending[n] \cup {Making(a) : a \in {b \in Above(n, m) : Parent(b) = Root(n)}},
                         {}, {})
    /\ UNCHANGED <<train_remove, test_remove>>
    /\ UNCHANGED notFS

\* the name of a file member was taken, or a directory member's name was
\* and nothing was found under it: tar removes what has the name (unlink of
\* a file, rmdir of a directory, which works when it is empty) and then
\* creates the member again (the default, overwriting, mode).  When nothing
\* is removed, tar goes on as when a directory on the path is missing: it
\* makes the directories of the path, if there are any, and gives the member
\* up when there are none.
FsUntarUnlink(n) ==
    /\ InTar(n)
    /\ \/ Taken(n) \in pending[n] /\ ~IsDir(NextMember(n))
       \/ Vanished(n) \in pending[n]
    /\ LET m == NextMember(n)
           todo == pending[n] \ {Taken(n), Vanished(n)}
       IN  IF Sees(n, m) /\ Children(m, fs_files) = {}
             THEN TarStays(n, todo, {}, {m})
           ELSE IF Above(n, m) = {}
             THEN TarLeaves(n, {}, {}, {})
           ELSE TarStays(n, todo \cup {Making(a) : a \in {b \in Above(n, m) : Parent(b) = Root(n)}},
                         {}, {})
    /\ UNCHANGED <<train_remove, test_remove>>
    /\ UNCHANGED notFS

\* the name of a directory member was taken: tar looks at what has the name
\* (stat), and a directory that is there is what the member asks for; when
\* nothing is there any more, tar next tries to remove what had the name,
\* unless it has made directories for this member already
FsUntarStat(n) ==
    /\ InTar(n)
    /\ Taken(n) \in pending[n]
    /\ IsDir(NextMember(n))
    /\ IF Sees(n, NextMember(n))
         THEN TarLeaves(n, {NextMember(n)}, {}, {})
       ELSE IF Made(n) \in pending[n]
         THEN TarLeaves(n, {}, {}, {})
       ELSE TarStays(n, (pending[n] \ {Taken(n)}) \cup {Vanished(n)}, {}, {})
    /\ UNCHANGED <<train_remove, test_remove>>
    /\ UNCHANGED notFS

\* make_directories: tar makes the next directory of the path to the member,
\* from the top (mkdir).  A directory that is there already is passed over;
\* a mkdir that fails because the directory above is missing ends the
\* attempt, and so does coming to the end of the path without having made a
\* directory: tar gives the member up.  Else tar creates the member again.
FsUntarMkdir(n) ==
    /\ InTar(n)
    /\ \E a \in Above(n, NextMember(n)) :
          /\ Making(a) \in pending[n]
          /\ LET below == {b \in Above(n, NextMember(n)) : Parent(b) = a}
                 on == (pending[n] \ {Making(a)}) \cup {Making(b) : b \in below}
             IN  IF ~Sees(n, Parent(a))
                   THEN TarLeaves(n, {}, {}, {})
                 ELSE IF a \notin fs_files
                   THEN TarStays(n, on \cup {Made(n)}, {a}, {})
                 ELSE IF below = {} /\ Made(n) \notin pending[n]
                   THEN TarLeaves(n, {}, {}, {})
                 ELSE TarStays(n, on, {}, {})
    /\ UNCHANGED <<train_remove, test_remove>>
    /\ UNCHANGED notFS

\* util.preprocessing.download_dataset(): the data set is downloaded and
\* unpacked below data/, or the call raises
FsDownloadDataset(n) ==
    /\ AtStep(n, "download_dataset")
    /\ \/ Touch(n, {}, WithParents({File(n, Arg(n), 0)}), {})
       \/ Raise(n)
    /\ UNCHANGED <<train_remove, test_remove, pending>>
    /\ UNCHANGED notFS

\* df = pd.read_csv(f"{local_dir}/train.csv", ...) and
\* df = pd.read_csv("data/ag_news_csv/train.csv", ...)
FsReadCsv(n) ==
    /\ AtStep(n, "read_csv")
    /\ IF File(n, Arg(n), 0) \in fs_files
         THEN Touch(n, {File(n, Arg(n), 0)}, {}, {})
         ELSE Raise(n)
    /\ UNCHANGED <<train_remove, test_remove, pending>>
    /\ UNCHANGED notFS

\* the file of pre-trained vectors while it is being fetched: under its
\* name, but not whole
Unfinished(f) == <<f[1], f[2], 1>>

\* embedding_matrix = util.preprocessing.get_word_embeddings(tokenizer, f"{local_dir}/embeddings")
\* the call looks for the file of pre-trained vectors in the directory: a
\* file of that name, whole or not, is loaded; when there is none the call
\* makes the directory and starts to fetch the file, which is there
\* unfinished while the fetch runs
FsEmbeddings(n) ==
    /\ AtStep(n, "embeddings")
    /\ LET vec == File(n, Arg(n), 0)
           there == {vec, Unfinished(vec)} \cap fs_files
       IN  IF there # {}
             THEN Act(n, there, {}, {}, Step(n) + 2)
             ELSE Touch(n, {}, WithParents({Unfinished(vec)}), {})
    /\ UNCHANGED <<train_remove, test_remove, pending>>
    /\ UNCHANGED notFS

\* get_word_embeddings, the fetch ends: the file is whole, unless another
\* notebook has removed it since (what was fetched is then under no name);
\* or the fetch fails and the call raises, the unfinished file staying
FsEmbeddingsFetch(n) ==
    /\ AtStep(n, "embeddings_fetch")
    /\ LET vec == File(n, Arg(n), 0)
       IN  \/ IF Unfinished(vec) \in fs_files
                THEN Touch(n, {}, {vec}, {Unfinished(vec)})
                ELSE Touch(n, {}, {}, {})
           \/ Raise(n)
    /\ UNCHANGED <<train_remove, test_remove, pending>>
    /\ UNCHANGED notFS

\* get_word_embeddings, loading the vectors: the call raises when the file
\* is not there (another notebook has removed it) and when it is not whole
\* (another notebook is fetching it, or a fetch has failed: the "file format
\* error" the SageMaker notebooks warn of, which lasts until the embeddings
\* folder is deleted)
FsEmbeddingsLoad(n) ==
    /\ AtStep(n, "embeddings_load")
    /\ IF File(n, Arg(n), 0) \in fs_files
         THEN Touch(n, {File(n, Arg(n), 0)}, {}, {})
         ELSE Raise(n)
    /\ UNCHANGED <<train_remove, test_remove, pending>>
    /\ UNCHANGED notFS

\* np.save(file, arr), df.to_csv(path) and %%writefile path open the file for
\* writing: the file is created or overwritten; the call raises when the
\* directory of the file is not there
FsSave(n) ==
    /\ AtStep(n, "save")
    /\ IF Parent(File(n, Arg(n), 0)) \in fs_files
         THEN Touch(n, {}, {File(n, Arg(n), 0)}, {})
         ELSE Raise(n)
    /\ UNCHANGED <<train_remove, test_remove, pending>>
    /\ UNCHANGED notFS

\* os.makedirs(name, exist_ok=True), first system call: path.exists(head),
\* head being local_dir; when something has that name, mkdir(name) is next
FsMakedirsExists(n) ==
    /\ AtStep(n, "exists")
    /\ Act(n, {Root(n), RootFile(n)} \cap fs_files, {}, {},
           IF {Root(n), RootFile(n)} \cap fs_files # {} THEN Step(n) + 3 ELSE Step(n) + 1)
    /\ UNCHANGED <<train_remove, test_remove, pending>>
    /\ UNCHANGED notFS

\* os.makedirs, head not there: makedirs(head, exist_ok=True), which is
\* mkdir(head); when that fails because something has taken the name since,
\* path.isdir(head) is next, else mkdir(name)
FsMakedirsHead(n) ==
    /\ AtStep(n, "mkdir_head")
    /\ IF {Root(n), RootFile(n)} \cap fs_files # {}
         THEN Touch(n, {}, {}, {})
         ELSE Act(n, {}, {Root(n)}, {}, Step(n) + 2)
    /\ UNCHANGED <<train_remove, test_remove, pending>>
    /\ UNCHANGED notFS

\* os.makedirs, mkdir(head) failed: path.isdir(head); the FileExistsError
\* raised when head is no directory is caught (except FileExistsError: pass),
\* so that mkdir(name) is next in either case
FsMakedirsHeadIsDir(n) ==
    /\ AtStep(n, "isdir_head")
    /\ Touch(n, {Root(n)} \cap fs_files, {}, {})
    /\ UNCHANGED <<train_remove, test_remove, pending>>
    /\ UNCHANGED notFS

\* os.makedirs: mkdir(name); when it fails (the directory is there already,
\* local_dir is not there or is a regular file), path.isdir(name) is next
FsMakedirsMkdir(n) ==
    /\ AtStep(n, "os_mkdir")
    /\ IF Root(n) \in fs_files /\ Dir(n, Arg(n)) \notin fs_files
         THEN Act(n, {}, {Dir(n, Arg(n))}, {}, Step(n) + 2)
         ELSE Touch(n, {}, {}, {})
    /\ UNCHANGED <<train_remove, test_remove, pending>>
    /\ UNCHANGED notFS

\* os.makedirs, mkdir(name) failed: path.isdir(name); with exist_ok=True a
\* directory that is there ends the call, and else the error of mkdir is
\* raised (FileNotFoundError, NotADirectoryError, FileExistsError)
FsMakedirsIsDir(n) ==
    /\ AtStep(n, "isdir")
    /\ IF Dir(n, Arg(n)) \in fs_files
         THEN Touch(n, {Dir(n, Arg(n))}, {}, {})
         ELSE Raise(n)
    /\ UNCHANGED <<train_remove, test_remove, pending>>
    /\ UNCHANGED notFS

\* the .npy files, which aws s3 sync is told to include
NpyNames ==
    {"embeddings/docs-embedding-matrix.npy", "train/train_X.npy", "train/train_Y.npy",
     "test/test_X.npy", "test/test_Y.npy"}

\* !aws s3 sync --quiet --delete {local_dir} s3://{bucket_name}/news --exclude "*" --include "*.npy"
\* and, in the MNIST exercise, !aws s3 sync --quiet --delete ??? ??? --exclude "*.tgz"
\* with the local directory filled in as its source
FsS3Sync(n) ==
    /\ AtStep(n, "s3_sync")
    /\ Touch(n, IF Example(n) = "keras_nlp"
                  THEN {f \in InDir(n) : f[2] \in NpyNames}
                  ELSE InDir(n) \ {Tgz(n)}, {}, {})
    /\ UNCHANGED <<train_remove, test_remove, pending>>
    /\ UNCHANGED notFS

\* sess.upload_data(path=...): the file, or the files of the directory, are
\* read; the call raises when nothing has the name.  No notebook that runs
\* beside one that uploads deletes a file, so that the files listed are the
\* files read.
FsUploadData(n) ==
    /\ AtStep(n, "upload_data")
    /\ IF File(n, Arg(n), 0) \in fs_files
         THEN Touch(n, {File(n, Arg(n), 0)} \cup Children(File(n, Arg(n), 0), fs_files), {}, {})
         ELSE Raise(n)
    /\ UNCHANGED <<train_remove, test_remove, pending>>
    /\ UNCHANGED notFS

\* ! python source/sklearn_training_script.py ... --model_dir 'model/'
\* --train_dir 'data/' --test_dir 'data/': the interpreter reads the script,
\* the script reads the two CSV files and writes model.joblib; when a file
\* cannot be opened the command ends (a failing shell command does not
\* raise: the cell goes on)
FsScript(n) ==
    /\ LET f == File(n, Arg(n), 0)
           after == StepOf(n, "script_save") + 1
       IN  \/ /\ AtStep(n, "script_read")
              /\ IF f \in fs_files THEN Touch(n, {f}, {}, {}) ELSE Act(n, {}, {}, {}, after)
           \/ /\ AtStep(n, "script_save")
              /\ Act(n, {}, IF Parent(f) \in fs_files THEN {f} ELSE {}, {}, after)
    /\ UNCHANGED <<train_remove, test_remove, pending>>
    /\ UNCHANGED notFS

\* the .png files of the training or of the testing directory: "*/*.png"
Images(n, part) == {f \in InDir(n) : f[2] = ImageName(part) /\ f[3] >= 1}

\* !python3 src/main.py --train {training_dir} --test {testing_dir} ...: the
\* script is given the two directories and reads the images in them; a
\* failing shell command does not raise
FsMain(n) ==
    /\ AtStep(n, "main")
    /\ Touch(n, Images(n, "training") \cup Images(n, "testing"), {}, {})
    /\ UNCHANGED <<train_remove, test_remove, pending>>
    /\ UNCHANGED notFS

\* set(files) ^ set(files[::reduction_factor]): the files a deletion loop
\* runs over
Dropped(files) == SymDiff(files, EveryNth(files, reduction_factor))

\* train_files = sorted(list(glob.iglob(os.path.join(training_dir, "*/*.png"), ...)))
\* and, as the next statement, test_files likewise.  Of each list the model
\* keeps what is read of it later, the set its deletion loop runs over:
\* train_files_to_keep = train_files[::reduction_factor] and
\* set(train_files) ^ set(train_files_to_keep).  After the second listing
\* the first deletion loop that has files to run over starts.
FsGlob(n) ==
    /\ \/ /\ AtStep(n, "glob_train")
          /\ train_remove' = [train_remove EXCEPT ![n] =
                                Dropped(SortedSeq(Images(n, "training")))]
          /\ Touch(n, Images(n, "training"), {}, {})
          /\ UNCHANGED test_remove
       \/ /\ AtStep(n, "glob_test")
          /\ test_remove' = [test_remove EXCEPT ![n] =
                               Dropped(SortedSeq(Images(n, "testing")))]
          /\ Act(n, Images(n, "testing"), {}, {},
                 IF train_remove[n] # {} THEN Step(n) + 1
                 ELSE IF test_remove'[n] # {} THEN Step(n) + 2 ELSE Step(n) + 3)
          /\ UNCHANGED train_remove
    /\ UNCHANGED pending
    /\ UNCHANGED notFS

InLoop(n) == AtStep(n, "remove_train") \/ AtStep(n, "remove_test")

\* the files the running deletion loop has still to remove
LoopFiles(n) == IF AtStep(n, "remove_train") THEN train_remove[n] ELSE test_remove[n]

\* os.remove(fname) for one fname of the set the loop runs over, in the
\* order the set gives; after the last one the second loop starts if it has
\* files to run over, or the cell ends
FsRemove(n) ==
    /\ InLoop(n)
    /\ \E f \in LoopFiles(n) :
          /\ f \in fs_files
          /\ IF AtStep(n, "remove_train")
               THEN /\ train_remove' = [train_remove EXCEPT ![n] = @ \ {f}]
                    /\ UNCHANGED test_remove
               ELSE /\ test_remove' = [test_remove EXCEPT ![n] = @ \ {f}]
                    /\ UNCHANGED train_remove
          /\ Act(n, {}, {}, {f},
                 IF LoopFiles(n) # {f} THEN Step(n)
                 ELSE IF AtStep(n, "remove_train") /\ test_remove[n] = {} THEN Step(n) + 2
                 ELSE Step(n) + 1)
    /\ UNCHANGED pending
    /\ UNCHANGED notFS

\* os.remove(fname) raises FileNotFoundError: another notebook has removed
\* the file since it was listed; the loops are abandoned
FsRemoveRaises(n) ==
    /\ InLoop(n)
    /\ LoopFiles(n) \ fs_files # {}
    /\ Raise(n)
    /\ train_remove' = [train_remove EXCEPT ![n] = {}]
    /\ test_remove' = [test_remove EXCEPT ![n] = {}]
    /\ UNCHANGED pending
    /\ UNCHANGED notFS

\* labels = sorted(os.listdir(training_dir)): raises FileNotFoundError when
\* training_dir is not there; without a label directory the loop over the
\* labels has nothing to do and the cell ends
FsListLabels(n) ==
    /\ AtStep(n, "list_labels")
    /\ IF Dir(n, "training/") \notin fs_files
         THEN Raise(n)
         ELSE Act(n, {Dir(n, "training/")} \cup ({LabelDir(n, "training")} \cap fs_files), {}, {},
                  IF LabelDir(n, "training") \in fs_files
                    THEN Step(n) + 1 ELSE StepOf(n, "explore_list"))
    /\ UNCHANGED <<train_remove, test_remove, pending>>
    /\ UNCHANGED notFS

\* os.listdir(os.path.join(training_dir, label_str)), and
\* os.listdir(os.path.join(testing_dir, label_str)) after the training files
\* are read: raises FileNotFoundError when the directory is not there; the
\* loop over the listing has nothing to do when the directory is empty
FsListDir(n) ==
    /\ \E s \in {<<"list_train", "training">>, <<"list_test", "testing">>} :
          /\ AtStep(n, s[1])
          /\ IF LabelDir(n, s[2]) \in fs_files
               THEN /\ pending' = [pending EXCEPT ![n] = Images(n, s[2])]
                    /\ Act(n, {LabelDir(n, s[2])} \cup Images(n, s[2]), {}, {},
                           IF Images(n, s[2]) # {} THEN Step(n) + 1 ELSE Step(n) + 2)
               ELSE /\ Raise(n)
                    /\ UNCHANGED pending
    /\ UNCHANGED <<train_remove, test_remove>>
    /\ UNCHANGED notFS

\* filename = os.listdir(f"{testing_dir}/{label}")[0]: raises when the
\* directory is not there (FileNotFoundError) or empty (IndexError); which
\* file comes first is up to the file system
FsExploreList(n) ==
    /\ AtStep(n, "explore_list")
    /\ IF Images(n, "testing") # {}
         THEN \E f \in Images(n, "testing") :
                 /\ pending' = [pending EXCEPT ![n] = {f}]
                 /\ Touch(n, {LabelDir(n, "testing")} \cup Images(n, "testing"), {}, {})
         ELSE /\ Raise(n)
              /\ UNCHANGED pending
    /\ UNCHANGED <<train_remove, test_remove>>
    /\ UNCHANGED notFS

InOpen(n) == AtStep(n, "open_train") \/ AtStep(n, "open_test") \/ AtStep(n, "explore_open")

\* with open(os.path.join(training_dir, label_str, filename), "rb") as imgfile: ... Image.open(imgfile)
\* for the next file of the listing, which os.listdir gave in the order of
\* the file system: any of the files not yet opened may be the next; the
\* loop over the listing ends after the last
FsOpen(n) ==
    /\ InOpen(n)
    /\ \E f \in pending[n] \cap fs_files :
          /\ pending' = [pending EXCEPT ![n] = @ \ {f}]
          /\ Act(n, {f}, {}, {}, IF pending[n] = {f} THEN Step(n) + 1 ELSE Step(n))
    /\ UNCHANGED <<train_remove, test_remove>>
    /\ UNCHANGED notFS

\* open(...) raises FileNotFoundError: the next file of the listing is no
\* longer there
FsOpenRaises(n) ==
    /\ InOpen(n)
    /\ pending[n] \ fs_files # {}
    /\ Raise(n)
    /\ pending' = [pending EXCEPT ![n] = {}]
    /\ UNCHANGED <<train_remove, test_remove>>
    /\ UNCHANGED notFS

InitFS == IdleFS

NextFS ==
    \/ \E n \in Notebooks : FsRmRfStart(n)
    \/ \E n \in Notebooks : FsRmRf(n)
    \/ \E n \in Notebooks : FsRmRfEnd(n)
    \/ \E n \in Notebooks : FsMkdir(n)
    \/ \E n \in Notebooks : FsDownload(n)
    \/ \E n \in Notebooks : FsUntarStart(n)
    \/ \E n \in Notebooks : FsUntarChdir(n)
    \/ \E n \in Notebooks : FsUntarCreate(n)
    \/ \E n \in Notebooks : FsUntarUnlink(n)
    \/ \E n \in Notebooks : FsUntarStat(n)
    \/ \E n \in Notebooks : FsUntarMkdir(n)
    \/ \E n \in Notebooks : FsDownloadDataset(n)
    \/ \E n \in Notebooks : FsReadCsv(n)
    \/ \E n \in Notebooks : FsEmbeddings(n)
    \/ \E n \in Notebooks : FsEmbeddingsFetch(n)
    \/ \E n \in Notebooks : FsEmbeddingsLoad(n)
    \/ \E n \in Notebooks : FsSave(n)
    \/ \E n \in Notebooks : FsMakedirsExists(n)
    \/ \E n \in Notebooks : FsMakedirsHead(n)
    \/ \E n \in Notebooks : FsMakedirsHeadIsDir(n)
    \/ \E n \in Notebooks : FsMakedirsMkdir(n)
    \/ \E n \in Notebooks : FsMakedirsIsDir(n)
    \/ \E n \in Notebooks : FsS3Sync(n)
    \/ \E n \in Notebooks : FsUploadData(n)
    \/ \E n \in Notebooks : FsScript(n)
    \/ \E n \in Notebooks : FsMain(n)
    \/ \E n \in Notebooks : FsGlob(n)
    \/ \E n \in Notebooks : FsRemove(n)
    \/ \E n \in Notebooks : FsRemoveRaises(n)
    \/ \E n \in Notebooks : FsListLabels(n)
    \/ \E n \in Notebooks : FsListDir(n)
    \/ \E n \in Notebooks : FsExploreList(n)
    \/ \E n \in Notebooks : FsOpen(n)
    \/ \E n \in Notebooks : FsOpenRaises(n)

StartFS == InitFS /\ IdleHPO /\ IdleNB /\ IdleSP /\ IdleSK /\ IdleTK /\ IdleMN /\ IdlePR

SpecFS == StartFS /\ [][NextFS]_vars

(***************************************************************************)
(* The train/test split cells: train_test_split(X, y, test_size=...,       *)
(* random_state=42) and the frames built from its result.                  *)
(***************************************************************************)

\* Largest number of rows of the data set that is split.
MaxRows == 4

\* test_size=0.25 (Boston housing) and test_size=0.2 (headlines)
TestSizes == {<<1, 4>>, <<1, 5>>}

\* the shuffles of n rows a random state can produce
Perms(n) == {q \in [1..n -> 1..n] : \A i \in 1..n : \A j \in 1..n : i # j => q[i] # q[j]}

\* n_test = ceil(test_size * n_samples)
NTest(n, ts) == (n * ts[1] + ts[2] - 1) \div ts[2]

\* indexing an array by a list of row positions
Take(a, idx) == [k \in 1..Len(idx) |-> a[idx[k]]]

\* the test part and the train part of a shuffle: permutation[:n_test] and
\* permutation[n_test:n_test + n_train]
TestIdx(perm, nt) == [k \in 1..nt |-> perm[k]]
TrainIdx(perm, nt) == [k \in 1..(Len(perm) - nt) |-> perm[nt + k]]

Reverse(q) == [k \in 1..Len(q) |-> q[Len(q) + 1 - k]]

\* Features and labels split by two calls that shuffle differently.
TrainTestSplitSeparately(X, y, ts, perm) ==
    LET nt == NTest(Len(X), ts)
    IN  [X_train |-> Take(X, TrainIdx(perm, nt)),
         X_test  |-> Take(X, TestIdx(perm, nt)),
         y_train |-> Take(y, TrainIdx(Reverse(perm), nt)),
         y_test  |-> Take(y, TestIdx(Reverse(perm), nt))]

\* X_train, X_test, y_train, y_test = train_test_split(X, y, test_size=ts, random_state=42)
\* one call: every array is indexed by the same train and test positions
TrainTestSplit(X, y, ts, perm) ==
    LET nt == NTest(Len(X), ts)
    IN  [X_train |-> Take(X, TrainIdx(perm, nt)),
         X_test  |-> Take(X, TestIdx(perm, nt)),
         y_train |-> Take(y, TrainIdx(perm, nt)),
         y_test  |-> Take(y, TestIdx(perm, nt))]

\* the call raises ValueError when the train part would be empty
SplitRaises(n, ts) == n - NTest(n, ts) = 0

\* the split cell
SplitCell ==
    /\ sp_pc = "start"
    /\ ~SplitRaises(Len(sp_data), sp_test_size)
    /\ \E perm \in Perms(Len(sp_data)) :
          LET r == TrainTestSplit(sp_data, sp_target, sp_test_size, perm)
          IN  /\ sp_X_train' = r.X_train
              /\ sp_X_test' = r.X_test
              /\ sp_y_train' = r.y_train
              /\ sp_y_test' = r.y_test
    /\ sp_pc' = "split"
    /\ UNCHANGED <<sp_data, sp_target, sp_test_size, sp_trainX, sp_testX>>
    /\ UNCHANGED notSP

\* the split cell raises
SplitCellRaises ==
    /\ sp_pc = "start"
    /\ SplitRaises(Len(sp_data), sp_test_size)
    /\ sp_pc' = "raised"
    /\ UNCHANGED <<sp_data, sp_target, sp_test_size, sp_X_train, sp_X_test, sp_y_train,
                   sp_y_test, sp_trainX, sp_testX>>
    /\ UNCHANGED notSP

\* trainX = pd.DataFrame(X_train, ...); trainX['target'] = y_train; testX likewise
BuildFrames ==
    /\ sp_pc = "split"
    /\ sp_trainX' = [k \in 1..Len(sp_X_train) |-> <<sp_X_train[k], sp_y_train[k]>>]
    /\ sp_testX' = [k \in 1..Len(sp_X_test) |-> <<sp_X_test[k], sp_y_test[k]>>]
    /\ sp_pc' = "frames"
    /\ UNCHANGED <<sp_data, sp_target, sp_test_size, sp_X_train, sp_X_test, sp_y_train,
                   sp_y_test>>
    /\ UNCHANGED notSP

InitSP ==
    /\ sp_pc = "start"
    /\ \E n \in 1..MaxRows :
          /\ sp_data = [i \in 1..n |-> i]
          /\ sp_target \in [1..n -> {0, 1}]
    /\ sp_test_size \in TestSizes
    /\ sp_X_train = <<>>
    /\ sp_X_test = <<>>
    /\ sp_y_train = <<>>
    /\ sp_y_test = <<>>
    /\ sp_trainX = <<>>
    /\ sp_testX = <<>>

NextSP ==
    \/ SplitCell
    \/ SplitCellRaises
    \/ BuildFrames

StartSP == InitSP /\ IdleHPO /\ IdleNB /\ IdleFS /\ IdleSK /\ IdleTK /\ IdleMN /\ IdlePR

SpecSP == StartSP /\ [][NextSP]_vars

(***************************************************************************)
(* source/sklearn_training_script.py: model_fn and the __main__ block.     *)
(* Paths are sequences of names and "/" separators.                        *)
(***************************************************************************)

\* Largest number of data rows in a CSV file.
MaxCsvRows == 1

\* parser.add_argument('--n_estimators', type=int, default=10)
default_n_estimators == 10
\* parser.add_argument('--min_samples_leaf', type=int, default=3)
default_min_samples_leaf == 3

ModuleName == "sklearn_training_script"

\* os.path.join(a, b)
Join(a, b) ==
    IF b # <<>> /\ b[1] = "/" THEN b
    ELSE IF a = <<>> \/ a[Len(a)] = "/" THEN a \o b
    ELSE a \o <<"/">> \o b

\* the directories the script is given: --model_dir 'model/' and SM_MODEL_DIR
LocalModelDir == <<"model", "/">>
SmModelDir == <<"/", "opt", "/", "ml", "/", "model">>
ModelDirs == {LocalModelDir, SmModelDir}
DataDir == <<"data", "/">>
SmTrainDir == <<"/", "opt", "/", "ml", "/", "input", "/", "data", "/", "train">>
SmTestDir == <<"/", "opt", "/", "ml", "/", "input", "/", "data", "/", "test">>

\* os.environ outside a training container and inside one
NoEnv == [SM_MODEL_DIR |-> <<>>, SM_CHANNEL_TRAIN |-> <<>>, SM_CHANNEL_TEST |-> <<>>]
SmEnv ==
    [SM_MODEL_DIR |-> <<SmModelDir>>, SM_CHANNEL_TRAIN |-> <<SmTrainDir>>,
     SM_CHANNEL_TEST |-> <<SmTestDir>>]

\* str.split(): the words of a string, whitespace dropped
Split(str) == SelectSeq(str, LAMBDA w : w # " ")

\* DataFrame.to_csv / pd.read_csv: a file is <<header, number of rows>>; the
\* index column is written with an empty name and read back as "Unnamed: 0"
ReadCsv(file) ==
    [columns |-> [k \in 1..Len(file[1]) |-> IF file[1][k] = "" THEN "Unnamed: 0" ELSE file[1][k]],
     rows    |-> file[2]]

\* joblib.dump / joblib.load
Dump(obj) == <<"joblib", obj>>
Load(file) == file[2]

\* open(path, 'wb').write(content)
WriteFile(fs, path, content) ==
    [q \in (DOMAIN fs) \cup {path} |-> IF q = path THEN content ELSE fs[q]]

\* model_fn: os.path.join(model_dir, "model.joblib")
LoadPath(model_dir) == Join(model_dir, <<"model.joblib">>)

\* The script saving under another file name than model_fn loads.
SavePathPkl(model_dir) == Join(model_dir, <<"model.pkl">>)

\* __main__: path = os.path.join(args.model_dir, "model.joblib")
SavePath(model_dir) == Join(model_dir, <<"model.joblib">>)

\* no guard: the block runs whatever the module's name
NoGuard(name) == name = name

\* if __name__ == '__main__':
IsMain(name) == name = "__main__"

\* The model saved before it is tested.
StepsSaveFirst == <<"parse", "read_train", "read_test", "select", "fit", "save", "test">>

\* the steps of the __main__ block, in the order of the source
Steps == <<"parse", "read_train", "read_test", "select", "fit", "test", "save">>

StepIndex(step) == CHOOSE k \in 1..Len(Steps) : Steps[k] = step

\* where control goes after a step that did not raise
After(step) == IF StepIndex(step) = Len(Steps) THEN "done" ELSE Steps[StepIndex(step) + 1]

\* a step begins: sk_pc is at it
Begin(step) ==
    /\ sk_pc = step
    /\ sk_log' = Append(sk_log, step)

\* an exception nothing catches: the interpreter exits
Uncaught == sk_pc' = "error"

\* the frames and the model before they are assigned
NoFrame == [columns |-> <<>>, rows |-> 0]
NoSets == [X_train |-> NoFrame, X_test |-> NoFrame, y_train |-> NoFrame, y_test |-> NoFrame]
NoModel == [n_estimators |-> 0, min_samples_leaf |-> 0, features |-> <<>>, fitted_rows |-> 0]

\* a model an earlier run left in the model directory
StaleModel == [n_estimators |-> 1, min_samples_leaf |-> 1, features |-> <<"CRIM">>, fitted_rows |-> 1]

skInputs == <<sk_name, sk_argv, sk_env, sk_fs0>>

\* import argparse ... def model_fn(model_dir): the top of the module
LoadModule ==
    /\ sk_pc = "start"
    /\ sk_defined' = sk_defined \cup {"model_fn"}
    /\ sk_pc' = "guard"
    /\ UNCHANGED <<skInputs, sk_args, sk_fs, sk_train_df, sk_test_df, sk_sets, sk_model,
                   sk_log, sk_written, sk_loaded, sk_printed>>
    /\ UNCHANGED notSK

\* if __name__ == '__main__':
MainGuard ==
    /\ sk_pc = "guard"
    /\ sk_pc' = IF IsMain(sk_name) THEN Steps[1] ELSE "imported"
    /\ UNCHANGED <<skInputs, sk_args, sk_fs, sk_train_df, sk_test_df, sk_sets, sk_model,
                   sk_defined, sk_log, sk_written, sk_loaded, sk_printed>>
    /\ UNCHANGED notSK

\* parser = argparse.ArgumentParser() and parser.add_argument('--...'): the
\* option strings of the parser, letter by letter, without the two dashes;
\* --help is the option argparse adds to every parser by itself
OptionStrings ==
    [help |-> <<"h", "e", "l", "p">>,
     n_estimators |-> <<"n", "_", "e", "s", "t", "i", "m", "a", "t", "o", "r", "s">>,
     min_samples_leaf |->
         <<"m", "i", "n", "_", "s", "a", "m", "p", "l", "e", "s", "_", "l", "e", "a",
         "f">>,
     model_dir |-> <<"m", "o", "d", "e", "l", "_", "d", "i", "r">>,
     train_dir |-> <<"t", "r", "a", "i", "n", "_", "d", "i", "r">>,
     test_dir |-> <<"t", "e", "s", "t", "_", "d", "i", "r">>,
     train_file |-> <<"t", "r", "a", "i", "n", "_", "f", "i", "l", "e">>,
     test_file |-> <<"t", "e", "s", "t", "_", "f", "i", "l", "e">>,
     features |-> <<"f", "e", "a", "t", "u", "r", "e", "s">>,
     target_variable |->
         <<"t", "a", "r", "g", "e", "t", "_", "v", "a", "r", "i", "a", "b", "l", "e">>]

IsPrefix(s, t) == Len(s) <= Len(t) /\ SubSeq(t, 1, Len(s)) = s

\* argparse reads an option string it does not know as an abbreviation of
\* every option string that starts with it
Abbreviates(o) ==
    IF o = <<>> THEN {} ELSE {f \in DOMAIN OptionStrings : IsPrefix(o, OptionStrings[f])}

\* parser.error('ambiguous option: ...'): the extra option abbreviates several
Ambiguous == sk_argv.extra # <<>> /\ Cardinality(Abbreviates(sk_argv.extra[1])) > 1

\* the value the command line gives an option, <<>> for none: the extra
\* option comes last, and the last value given wins
CommandLine(opt) ==
    IF sk_argv.extra # <<>> /\ Abbreviates(sk_argv.extra[1]) = {opt} THEN <<sk_argv.extra[2]>>
    ELSE IF opt \in DOMAIN sk_argv THEN sk_argv[opt]
    ELSE <<>>

\* add_argument(..., default=...): the value given, else the default
ValueOrDefault(given, default) == IF given = <<>> THEN default ELSE given

\* the extra option is --help or an abbreviation of it
AsksHelp == sk_argv.extra # <<>> /\ Abbreviates(sk_argv.extra[1]) = {"help"}

\* args, _ = parser.parse_known_args(): an option not given takes its default,
\* an option string no option starts with is left in _, an ambiguous one
\* ends the run with SystemExit(2), and --help prints the usage and ends
\* the run with SystemExit(0)
ParseArgs ==
    /\ Begin("parse")
    /\ IF Ambiguous
       THEN /\ Uncaught
            /\ UNCHANGED sk_args
       ELSE IF AsksHelp
       THEN /\ sk_pc' = "exit"
            /\ UNCHANGED sk_args
       ELSE /\ sk_args' =
                 [n_estimators     |->
                      ValueOrDefault(CommandLine("n_estimators"), <<default_n_estimators>>)[1],
                  min_samples_leaf |->
                      ValueOrDefault(CommandLine("min_samples_leaf"),
                                     <<default_min_samples_leaf>>)[1],
                  model_dir        |->
                      ValueOrDefault(CommandLine("model_dir"), sk_env.SM_MODEL_DIR),
                  train_dir        |->
                      ValueOrDefault(CommandLine("train_dir"), sk_env.SM_CHANNEL_TRAIN),
                  test_dir         |->
                      ValueOrDefault(CommandLine("test_dir"), sk_env.SM_CHANNEL_TEST),
                  train_file       |->
                      ValueOrDefault(CommandLine("train_file"), <<(<<"boston_train.csv">>)>>)[1],
                  test_file        |->
                      ValueOrDefault(CommandLine("test_file"), <<(<<"boston_test.csv">>)>>)[1],
                  features         |-> CommandLine("features"),
                  target_variable  |-> CommandLine("target_variable")]
            /\ sk_pc' = After("parse")
    /\ UNCHANGED <<skInputs, sk_fs, sk_train_df, sk_test_df, sk_sets, sk_model, sk_defined,
                   sk_written, sk_loaded, sk_printed>>
    /\ UNCHANGED notSK

\* train_df = pd.read_csv(os.path.join(args.train_dir, args.train_file)): join raises
\* TypeError for a directory of None, read_csv FileNotFoundError
ReadTrain ==
    /\ Begin("read_train")
    /\ IF /\ sk_args.train_dir # <<>>
          /\ Join(sk_args.train_dir[1], sk_args.train_file) \in DOMAIN sk_fs
       THEN /\ sk_train_df' = ReadCsv(sk_fs[Join(sk_args.train_dir[1], sk_args.train_file)])
            /\ sk_pc' = After("read_train")
       ELSE /\ Uncaught
            /\ UNCHANGED sk_train_df
    /\ UNCHANGED <<skInputs, sk_args, sk_fs, sk_test_df, sk_sets, sk_model, sk_defined,
                   sk_written, sk_loaded, sk_printed>>
    /\ UNCHANGED notSK

\* test_df = pd.read_csv(os.path.join(args.test_dir, args.test_file)): join raises
\* TypeError for a directory of None, read_csv FileNotFoundError
ReadTest ==
    /\ Begin("read_test")
    /\ IF /\ sk_args.test_dir # <<>>
          /\ Join(sk_args.test_dir[1], sk_args.test_file) \in DOMAIN sk_fs
       THEN /\ sk_test_df' = ReadCsv(sk_fs[Join(sk_args.test_dir[1], sk_args.test_file)])
            /\ sk_pc' = After("read_test")
       ELSE /\ Uncaught
            /\ UNCHANGED sk_test_df
    /\ UNCHANGED <<skInputs, sk_args, sk_fs, sk_train_df, sk_sets, sk_model, sk_defined,
                   sk_written, sk_loaded, sk_printed>>
    /\ UNCHANGED notSK

\* the columns a frame is asked for exist
HasColumns(df, names) == Range(names) \subseteq Range(df.columns)

\* the columns of the frame in the frame's own order, whatever order was asked for
SelectColumnsFrameOrder(df, names) ==
    [columns |-> SelectSeq(df.columns, LAMBDA c : c \in Range(names)), rows |-> df.rows]

\* df[names]: the named columns, in the order of the names
SelectColumns(df, names) == [columns |-> names, rows |-> df.rows]

\* X_train = train_df[args.features.split()] ... y_test = test_df[args.target_variable]
Select ==
    /\ Begin("select")
    /\ IF /\ sk_args.features # <<>>
          /\ sk_args.target_variable # <<>>
          /\ HasColumns(sk_train_df, Split(sk_args.features[1]))
          /\ HasColumns(sk_test_df, Split(sk_args.features[1]))
          /\ HasColumns(sk_train_df, sk_args.target_variable)
          /\ HasColumns(sk_test_df, sk_args.target_variable)
       THEN /\ sk_sets' =
                 [X_train |-> SelectColumns(sk_train_df, Split(sk_args.features[1])),
                  X_test  |-> SelectColumns(sk_test_df, Split(sk_args.features[1])),
                  y_train |-> SelectColumns(sk_train_df, sk_args.target_variable),
                  y_test  |-> SelectColumns(sk_test_df, sk_args.target_variable)]
            /\ sk_pc' = After("select")
       ELSE /\ Uncaught
            /\ UNCHANGED sk_sets
    /\ UNCHANGED <<skInputs, sk_args, sk_fs, sk_train_df, sk_test_df, sk_model, sk_defined,
                   sk_written, sk_loaded, sk_printed>>
    /\ UNCHANGED notSK

\* model = RandomForestRegressor(...); model.fit(X_train, y_train): raises
\* ValueError for n_estimators < 1 and for a frame without rows
Fit ==
    /\ Begin("fit")
    /\ IF sk_args.n_estimators >= 1 /\ sk_sets.X_train.rows >= 1
       THEN /\ sk_model' = [n_estimators     |-> sk_args.n_estimators,
                            min_samples_leaf |-> sk_args.min_samples_leaf,
                            features         |-> sk_sets.X_train.columns,
                            fitted_rows      |-> sk_sets.X_train.rows]
            /\ sk_pc' = After("fit")
       ELSE /\ Uncaught
            /\ UNCHANGED sk_model
    /\ UNCHANGED <<skInputs, sk_args, sk_fs, sk_train_df, sk_test_df, sk_sets, sk_defined,
                   sk_written, sk_loaded, sk_printed>>
    /\ UNCHANGED notSK

\* for q in [10, 50, 90]: print('AE-at-' + str(q) + 'th-percentile: ' + ...)
Percentiles == <<10, 50, 90>>

\* abs_err = np.abs(model.predict(X_test) - y_test) and the percentile prints:
\* predict raises ValueError for a frame without rows
Test ==
    /\ Begin("test")
    /\ IF sk_sets.X_test.rows >= 1
       THEN /\ sk_printed' = Percentiles
            /\ sk_pc' = After("test")
       ELSE /\ Uncaught
            /\ UNCHANGED sk_printed
    /\ UNCHANGED <<skInputs, sk_args, sk_fs, sk_train_df, sk_test_df, sk_sets, sk_model,
                   sk_defined, sk_written, sk_loaded>>
    /\ UNCHANGED notSK

\* path = os.path.join(args.model_dir, "model.joblib"); joblib.dump(model, path):
\* os.path.join raises TypeError when model_dir is None
Save ==
    /\ Begin("save")
    /\ IF sk_args.model_dir # <<>>
       THEN /\ sk_fs' = WriteFile(sk_fs, SavePath(sk_args.model_dir[1]), Dump(sk_model))
            /\ sk_written' = sk_written \cup {SavePath(sk_args.model_dir[1])}
            /\ sk_pc' = After("save")
       ELSE /\ Uncaught
            /\ UNCHANGED <<sk_fs, sk_written>>
    /\ UNCHANGED <<skInputs, sk_args, sk_train_df, sk_test_df, sk_sets, sk_model, sk_defined,
                   sk_loaded, sk_printed>>
    /\ UNCHANGED notSK

\* model_fn(model_dir), called once the module has been run or imported
ModelFn(model_dir) ==
    /\ sk_pc \in {"done", "imported"}
    /\ "model_fn" \in sk_defined
    /\ sk_loaded = <<>>
    /\ LET path == LoadPath(model_dir)
       IN  sk_loaded' = IF path \in DOMAIN sk_fs THEN <<model_dir, Load(sk_fs[path])>>
                        ELSE <<model_dir>>
    /\ UNCHANGED <<skInputs, sk_pc, sk_args, sk_fs, sk_train_df, sk_test_df, sk_sets, sk_model,
                   sk_defined, sk_log, sk_written, sk_printed>>
    /\ UNCHANGED notSK

\* data.feature_names: the columns of trainX and testX before 'target'
feature_names ==
    <<"CRIM", "ZN", "INDUS", "CHAS", "NOX", "RM", "AGE", "DIS", "RAD", "TAX", "PTRATIO", "B",
      "LSTAT">>

\* --features 'CRIM ZN INDUS CHAS NOX RM AGE DIS RAD TAX PTRATIO B LSTAT'
ConfiguredFeatures ==
    [i \in 1..(2 * Len(feature_names) - 1) |->
        IF i % 2 = 1 THEN feature_names[(i + 1) \div 2] ELSE " "]

\* the CSV files the notebook wrote with to_csv (index column first, its name
\* empty), whole or with no rows or no target column
CsvFiles ==
    {<<(<<"">>) \o feature_names \o <<"target">>, r>> : r \in 0..MaxCsvRows}
        \cup {<<(<<"">>) \o feature_names, MaxCsvRows>>}

TrainPath == Join(DataDir, <<"boston_train.csv">>)
TestPath == Join(DataDir, <<"boston_test.csv">>)

\* the training file in the notebook's data/ folder and in the train channel
TrainPaths == {TrainPath, Join(SmTrainDir, <<"boston_train.csv">>)}
TestPaths == {TestPath, Join(SmTestDir, <<"boston_test.csv">>)}

\* a file system with the given CSV files (<<>>: no file) and, when stale,
\* a model file of an earlier run in each model directory
InitialFs(train, test, stale) ==
    LET dom == (IF train = <<>> THEN {} ELSE TrainPaths)
                   \cup (IF test = <<>> THEN {} ELSE TestPaths)
                   \cup (IF stale THEN {LoadPath(d) : d \in ModelDirs} ELSE {})
    IN  [q \in dom |-> IF q \in TrainPaths THEN train
                       ELSE IF q \in TestPaths THEN test
                       ELSE Dump(StaleModel)]

\* the command line of the notebook's Local training cell
LocalArgv ==
    [n_estimators    |-> <<100>>,
     model_dir       |-> <<LocalModelDir>>,
     train_dir       |-> <<DataDir>>,
     test_dir        |-> <<DataDir>>,
     features        |-> <<ConfiguredFeatures>>,
     target_variable |-> <<"target">>,
     extra           |-> <<>>]

\* option strings the script does not define, each with a value: one that no
\* option starts with, one that two options start with, one that one option
\* of the script starts with, and one that --help starts with
ExtraArgs ==
    {<<(<<"b", "a", "t", "c", "h">>), 1>>,
     <<(<<"t", "r", "a", "i", "n">>), DataDir>>,
     <<(<<"m", "o", "d", "e", "l">>), LocalModelDir>>,
     <<(<<"h", "e">>), 1>>}

InitSK ==
    /\ sk_name \in {"__main__", ModuleName}
    /\ sk_argv \in [n_estimators    : {<<>>, <<100>>},
                    model_dir       : {<<>>, <<LocalModelDir>>},
                    train_dir       : {<<>>, <<DataDir>>},
                    test_dir        : {<<>>, <<DataDir>>},
                    features        : {<<>>, <<ConfiguredFeatures>>, <<(<<"ZN", " ", " ", "CRIM">>)>>},
                    target_variable : {<<>>, <<"target">>},
                    extra           : {<<>>} \cup ExtraArgs]
    /\ sk_name = ModuleName => sk_argv = LocalArgv
    /\ sk_env \in {NoEnv, SmEnv}
    /\ sk_pc = "start"
    /\ sk_args = <<>>
    /\ sk_fs \in {InitialFs(train, test, stale) :
                      train \in CsvFiles \cup {<<>>},
                      test \in {<<>>} \cup {f \in CsvFiles : "target" \in Range(f[1])},
                      stale \in BOOLEAN}
    /\ sk_fs0 = sk_fs
    /\ sk_train_df = NoFrame
    /\ sk_test_df = NoFrame
    /\ sk_sets = NoSets
    /\ sk_model = NoModel
    /\ sk_defined = {}
    /\ sk_log = <<>>
    /\ sk_written = {}
    /\ sk_loaded = <<>>
    /\ sk_printed = <<>>

NextSK ==
    \/ LoadModule
    \/ MainGuard
    \/ ParseArgs
    \/ ReadTrain
    \/ ReadTest
    \/ Select
    \/ Fit
    \/ Test
    \/ Save
    \/ \E model_dir \in ModelDirs : ModelFn(model_dir)

StartSK == InitSK /\ IdleHPO /\ IdleNB /\ IdleFS /\ IdleSP /\ IdleTK /\ IdleMN /\ IdlePR

SpecSK == StartSK /\ [][NextSK]_vars

(***************************************************************************)
(* classify(text) of the headline classifier notebooks: the text is        *)
(* encoded by the tokenizer, padded, and handed to the model.  The Keras   *)
(* notebooks ("local", "sagemaker") encode and then pad; the PyTorch       *)
(* notebooks ("torch_local", "torch_sagemaker") pad and then encode.       *)
(***************************************************************************)

\* Largest number of words and punctuation marks in a headline.
MaxWords == 42

\* classify: max_length = 40
max_length == 40
\* Embedding(..., input_length=40, ...)
input_length == 40
\* hyperparameters = { "epochs": 5, "max_seq_len": 40, "num_classes": 4 }
max_seq_len == 40

\* headlines: a short phrase repeated up to a number of words
Phrases ==
    {<<"markets">>, <<"The", "markets">>, <<"The", "markets", "were", "zzz", ",">>, <<"zzz">>,
     <<",">>}
Headline(phrase, n) == [i \in 1..n |-> phrase[((i - 1) % Len(phrase)) + 1]]
Headlines == {Headline(phrase, n) : phrase \in Phrases, n \in 0..MaxWords}

\* the tokenizer's word_index, before the shift an out-of-vocabulary token causes
word_index == [w \in {"the", "markets", "were"} |->
                 IF w = "the" THEN 1 ELSE IF w = "markets" THEN 2 ELSE 3]

\* text_to_word_sequence: lower case, punctuation filtered out
Lower(w) == IF w = "The" THEN "the" ELSE w
TextToWordSequence(text) ==
    SelectSeq([i \in 1..Len(text) |-> Lower(text[i])], LAMBDA w : w # ",")

\* tokenizer.texts_to_sequences([text])[0]: a known word gives its index, an
\* unknown word gives the out-of-vocabulary index 1 if there is one and is
\* dropped otherwise
TextsToSequences(text, wi, oov) ==
    LET words == TextToWordSequence(text)
        codes == [i \in 1..Len(words) |->
                    IF words[i] \in DOMAIN wi THEN wi[words[i]]
                    ELSE IF oov THEN 1 ELSE 0]
    IN  SelectSeq(codes, LAMBDA c : c # 0)

\* the word_index of the tokenizer that tokenize_and_pad_docs fits on the
\* TITLE column: an out-of-vocabulary token takes index 1 and shifts the words
BuildWordIndex(oov) ==
    [w \in DOMAIN word_index |-> word_index[w] + (IF oov THEN 1 ELSE 0)]

\* no tokenizer yet
NoWordIndex == [w \in {} |-> 0]

KerasNotebooks == {"local", "sagemaker"}

TorchNotebooks == {"torch_local", "torch_sagemaker"}

\* the stoi of the vocabulary of the torchtext field that tokenize_and_pad_docs
\* builds on the TITLE column: the unknown token, the padding token, the words
BuildStoi ==
    [w \in {"<unk>", "<pad>"} \cup DOMAIN word_index |->
        IF w = "<unk>" THEN 0 ELSE IF w = "<pad>" THEN 1 ELSE word_index[w] + 1]

\* tokenizer.preprocess(text): the tokens of the text, in lower case
Preprocess(text) == [i \in 1..Len(text) |-> Lower(text[i])]

\* tokenizer.pad([processed])[0]: the first n tokens, the padding token after
\* the last of fewer
Pad(tokens, n) == [k \in 1..n |-> IF k <= Len(tokens) THEN tokens[k] ELSE "<pad>"]

\* tokenizer.vocab.stoi[w]: stoi is a defaultdict whose default is the index
\* of the unknown token
StoiLookup(stoi, w) == IF w \in DOMAIN stoi THEN stoi[w] ELSE 0

\* stoi after tokenizer.vocab.stoi[w] for each w of tokens: a defaultdict
\* stores the default under a key that is looked up and missing
StoiAfter(stoi, tokens) ==
    [w \in (DOMAIN stoi) \cup Range(tokens) |-> StoiLookup(stoi, w)]

\* Net.forward takes the sequence: fc1 = nn.Linear(896, 128) after
\* Conv1d(emb_dim, 128, kernel_size=3), MaxPool1d(5) and Flatten
NetAccepts(len) == len >= 3 /\ 128 * ((len - 2) \div 5) = 896

\* the tokenizer's word_index after texts_to_sequences([text]): a lookup, the
\* mapping is left as it was
TokenizerAfter(wi, text) == wi

\* Padding without truncation.
PadSequencesNoTruncate(seq, maxlen) ==
    [k \in 1..(IF Len(seq) > maxlen THEN Len(seq) ELSE maxlen) |->
        IF k <= Len(seq) THEN seq[k] ELSE 0]

\* pad_sequences([seq], maxlen=maxlen, padding="post")[0]: truncating keeps its
\* default "pre", so of a longer sequence the last maxlen entries are kept
PadSequences(seq, maxlen) ==
    LET trunc == IF Len(seq) > maxlen THEN SubSeq(seq, Len(seq) - maxlen + 1, Len(seq))
                 ELSE seq
    IN  [k \in 1..maxlen |-> IF k <= Len(trunc) THEN trunc[k] ELSE 0]

\* the sequence length the model takes: the local model's input_length, the
\* trained job's max_seq_len
ModelInputLength(nb) == IF nb = "local" THEN input_length ELSE max_seq_len

\* def classify(text) of the Keras notebooks: one click of the Classify! button
ClassifyText(text) ==
    /\ tk_nb \in KerasNotebooks
    /\ tk_cell = "embedded"
    /\ tk_text' = text
    /\ tk_encoded' = TextsToSequences(text, tk_word_index, tk_oov)
    /\ tk_word_index' = TokenizerAfter(tk_word_index, text)
    /\ tk_padded' = PadSequences(tk_encoded', max_length)
    /\ tk_passed' = tk_padded'
    /\ tk_result' = IF Len(tk_passed') = ModelInputLength(tk_nb) THEN "ok" ELSE "error"
    /\ UNCHANGED <<tk_nb, tk_oov, tk_cell, tk_built_index, tk_embedding_index>>
    /\ UNCHANGED notTK

\* def classify(text) of the PyTorch notebooks: the text is padded first, and
\* every token of the padded text, the padding too, is looked up in stoi
ClassifyTextTorch(text) ==
    /\ tk_nb \in TorchNotebooks
    /\ tk_cell = "embedded"
    /\ tk_text' = text
    /\ tk_padded' = Pad(Preprocess(text), max_length)
    /\ tk_passed' = [k \in 1..Len(tk_padded') |-> StoiLookup(tk_word_index, tk_padded'[k])]
    /\ tk_word_index' = StoiAfter(tk_word_index, tk_padded')
    /\ tk_result' = IF NetAccepts(Len(tk_passed')) THEN "ok" ELSE "error"
    /\ UNCHANGED <<tk_nb, tk_oov, tk_cell, tk_encoded, tk_built_index, tk_embedding_index>>
    /\ UNCHANGED notTK

\* padded_docs, tokenizer = util.preprocessing.tokenize_and_pad_docs(df, "TITLE")
\* (processed_docs, tokenizer = ... in the PyTorch notebooks)
TokenizeAndPadDocs ==
    /\ tk_cell = "start"
    /\ tk_word_index' = IF tk_nb \in TorchNotebooks THEN BuildStoi ELSE BuildWordIndex(tk_oov)
    /\ tk_built_index' = tk_word_index'
    /\ tk_cell' = "tokenized"
    /\ UNCHANGED <<tk_nb, tk_oov, tk_text, tk_encoded, tk_padded, tk_passed, tk_result,
                   tk_embedding_index>>
    /\ UNCHANGED notTK

\* embedding_matrix = util.preprocessing.get_word_embeddings(tokenizer, ...): one
\* matrix row per index of the tokenizer's word_index
GetWordEmbeddings ==
    /\ tk_cell = "tokenized"
    /\ tk_embedding_index' = tk_word_index
    /\ tk_cell' = "embedded"
    /\ UNCHANGED <<tk_nb, tk_oov, tk_text, tk_encoded, tk_padded, tk_passed, tk_result,
                   tk_word_index, tk_built_index>>
    /\ UNCHANGED notTK

InitTK ==
    /\ tk_nb \in KerasNotebooks \cup TorchNotebooks
    /\ tk_oov \in BOOLEAN
    /\ tk_nb \in TorchNotebooks => ~tk_oov
    /\ tk_text = <<>>
    /\ tk_encoded = <<>>
    /\ tk_padded = <<>>
    /\ tk_passed = <<>>
    /\ tk_result = "none"
    /\ tk_cell = "start"
    /\ tk_word_index = NoWordIndex
    /\ tk_built_index = NoWordIndex
    /\ tk_embedding_index = NoWordIndex

NextTK ==
    \/ TokenizeAndPadDocs
    \/ GetWordEmbeddings
    \/ \E text \in Headlines : ClassifyText(text)
    \/ \E text \in Headlines : ClassifyTextTorch(text)

StartTK == InitTK /\ IdleHPO /\ IdleNB /\ IdleFS /\ IdleSP /\ IdleSK /\ IdleMN /\ IdlePR

SpecTK == StartTK /\ [][NextTK]_vars

(***************************************************************************)
(* The MNIST Local notebook after the data is prepared: the images are     *)
(* loaded from the label folders, shuffled, pre-processed, used to fit the *)
(* model, and one test image is sent to model.predict.  An array is the    *)
(* sequence of its samples; a pixel value is a fraction <<num, den>>.      *)
(***************************************************************************)

\* Largest number of PNG files in a folder of the training (testing) directory.
MaxTrainImgs == 1
MaxTestImgs == 1

\* labels = sorted(os.listdir(training_dir)): the label folders
Folders == <<"2", "7">>

\* the PNG files of a folder
PngFiles(split, folder, n) == [k \in 1..n |-> <<split, folder, k>>]

\* np.squeeze(tf.keras.preprocessing.image.img_to_array(Image.open(imgfile))):
\* a 28 x 28 matrix of the file's pixel values, 0 to 255
SqueezedImage(file, px) == [file |-> file, shape |-> <<28, 28>>, px |-> <<px, 1>>]

\* The label appended once per folder instead of once per image.
LabelPerFolder(files, ix_label) == <<ix_label>>

\* y_train.append(ix_label) / y_test.append(ix_label) in the loop over a folder's
\* files: the labels the folder adds
LabelPerImage(files, ix_label) == [k \in 1..Len(files) |-> ix_label]

\* one pass of "for ix_label in range(n_labels)": the folder's training files,
\* then its testing files, each appended with ix_label (in the order of the
\* file names; os.listdir gives some order)
LoadLabel ==
    /\ mn_pc = "load"
    /\ mn_ix < Len(Folders)
    /\ LET label_str == Folders[mn_ix + 1]
           trainfiles == mn_dir["training"][label_str]
           testfiles == mn_dir["testing"][label_str]
       IN  /\ mn_x_train' = mn_x_train \o [k \in 1..Len(trainfiles) |->
                                             SqueezedImage(trainfiles[k], mn_px)]
           /\ mn_y_train' = mn_y_train \o LabelPerImage(trainfiles, mn_ix)
           /\ mn_x_test' = mn_x_test \o [k \in 1..Len(testfiles) |->
                                           SqueezedImage(testfiles[k], mn_px)]
           /\ mn_y_test' = mn_y_test \o LabelPerImage(testfiles, mn_ix)
    /\ mn_ix' = mn_ix + 1
    /\ mn_pc' = IF mn_ix' = Len(Folders) THEN "shuffle_train" ELSE "load"
    /\ UNCHANGED <<mn_format, mn_px, mn_dir, mn_handed>>
    /\ UNCHANGED notMN

\* Images and labels shuffled apart from each other.
ShuffleSeparately(x, y, perm) == <<Take(x, perm), Take(y, Reverse(perm))>>

\* shuffled = [(x[ix], y[ix]) for ix in range(len(y))]; np.random.shuffle(shuffled);
\* x = np.array([datum[0] for ...]); y = np.array([datum[1] for ...])
ShufflePairs(x, y, perm) ==
    LET shuffled == Take([ix \in 1..Len(y) |-> <<x[ix], y[ix]>>], perm)
    IN  <<[k \in 1..Len(shuffled) |-> shuffled[k][1]],
          [k \in 1..Len(shuffled) |-> shuffled[k][2]]>>

\* print("Shuffling trainset...") and the five lines after it
ShuffleTrainset ==
    /\ mn_pc = "shuffle_train"
    /\ \E perm \in Perms(Len(mn_y_train)) :
          /\ mn_x_train' = ShufflePairs(mn_x_train, mn_y_train, perm)[1]
          /\ mn_y_train' = ShufflePairs(mn_x_train, mn_y_train, perm)[2]
    /\ mn_pc' = "shuffle_test"
    /\ UNCHANGED <<mn_format, mn_px, mn_dir, mn_ix, mn_x_test, mn_y_test, mn_handed>>
    /\ UNCHANGED notMN

\* print("Shuffling testset...") and the five lines after it
ShuffleTestset ==
    /\ mn_pc = "shuffle_test"
    /\ \E perm \in Perms(Len(mn_y_test)) :
          /\ mn_x_test' = ShufflePairs(mn_x_test, mn_y_test, perm)[1]
          /\ mn_y_test' = ShufflePairs(mn_x_test, mn_y_test, perm)[2]
    /\ mn_pc' = "preprocess"
    /\ UNCHANGED <<mn_format, mn_px, mn_dir, mn_ix, mn_x_train, mn_y_train, mn_handed>>
    /\ UNCHANGED notMN

\* len(x.shape) of the array of these samples
NDim(x) == IF x = <<>> THEN 1 ELSE 1 + Len(x[1].shape)

\* np.expand_dims(x, axis) for axis >= 1: a dimension of size 1 put at that
\* place of the array's shape, that is at place axis of each sample's shape
ExpandDims(x, axis) ==
    [k \in 1..Len(x) |->
        [x[k] EXCEPT !.shape = SubSeq(@, 1, axis - 1) \o <<1>> \o SubSeq(@, axis, Len(@))]]

\* x = x.astype("float32"); x /= 255
DivideBy255(x) == [k \in 1..Len(x) |-> [x[k] EXCEPT !.px = <<@[1], @[2] * 255>>]]

\* tf.keras.utils.to_categorical(y, n_labels)
ToCategorical(y, n) == [k \in 1..Len(y) |-> [c \in 1..n |-> IF c = y[k] + 1 THEN 1 ELSE 0]]

\* the "Pre-Process the Data for our CNN" cell; in the channels_first branch
\* x_test is assigned from the x_train just expanded, as the source has it
PreProcess ==
    /\ mn_pc = "preprocess"
    /\ IF mn_format = "channels_first"
       THEN /\ mn_x_train' = DivideBy255(ExpandDims(mn_x_train, 1))
            /\ mn_x_test' = DivideBy255(ExpandDims(ExpandDims(mn_x_train, 1), 1))
       ELSE /\ mn_x_train' = DivideBy255(ExpandDims(mn_x_train, NDim(mn_x_train)))
            /\ mn_x_test' = DivideBy255(ExpandDims(mn_x_test, NDim(mn_x_test)))
    /\ mn_y_train' = ToCategorical(mn_y_train, Len(Folders))
    /\ mn_y_test' = ToCategorical(mn_y_test, Len(Folders))
    /\ mn_pc' = "fit"
    /\ UNCHANGED <<mn_format, mn_px, mn_dir, mn_ix, mn_handed>>
    /\ UNCHANGED notMN

\* the images of an array as the model is handed them
Handed(role, x) == {[role |-> role, shape |-> x[k].shape, px |-> x[k].px] : k \in 1..Len(x)}

\* model.fit(x_train, y_train, ..., validation_data=(x_test, y_test)) on the
\* model built with input_shape = x_train.shape[1:]: raises for an empty set,
\* for validation images of another shape and for unequal numbers of
\* validation images and labels
FitModel ==
    /\ mn_pc = "fit"
    /\ mn_handed' = mn_handed \cup Handed("train", mn_x_train)
                              \cup Handed("validation", mn_x_test)
    /\ mn_pc' = IF /\ mn_x_train # <<>>
                   /\ mn_x_test # <<>>
                   /\ Len(mn_x_test) = Len(mn_y_test)
                   /\ \A k \in 1..Len(mn_x_test) : mn_x_test[k].shape = mn_x_train[1].shape
                THEN "explore" ELSE "error"
    /\ UNCHANGED <<mn_format, mn_px, mn_dir, mn_ix, mn_x_train, mn_x_test, mn_y_train, mn_y_test>>
    /\ UNCHANGED notMN

\* tf.keras.preprocessing.image.img_to_array(Image.open(...)): the channel
\* dimension where K.image_data_format() puts it, pixel values 0 to 255
ImgToArray(file, px, format) ==
    [file |-> file,
     shape |-> IF format = "channels_first" THEN <<1, 28, 28>> ELSE <<28, 28, 1>>,
     px |-> <<px, 1>>]

\* the "Explore Results" cell: label = "2"; filename = os.listdir(...)[0], any
\* file of the folder, IndexError when it has none; model.predict of the image
ExploreResults ==
    /\ mn_pc = "explore"
    /\ IF mn_dir["testing"]["2"] = <<>>
       THEN /\ mn_pc' = "error"
            /\ UNCHANGED mn_handed
       ELSE /\ \E k \in 1..Len(mn_dir["testing"]["2"]) :
                  mn_handed' = mn_handed \cup
                      Handed("predict", <<ImgToArray(mn_dir["testing"]["2"][k], mn_px, mn_format)>>)
            /\ mn_pc' = "done"
    /\ UNCHANGED <<mn_format, mn_px, mn_dir, mn_ix, mn_x_train, mn_x_test, mn_y_train, mn_y_test>>
    /\ UNCHANGED notMN

InitMN ==
    /\ mn_format \in {"channels_first", "channels_last"}
    /\ mn_px \in {0, 255}
    /\ mn_dir \in {[split \in {"training", "testing"} |->
                      [f \in Range(Folders) |->
                          PngFiles(split, f, IF split = "training" THEN nt[f] ELSE ne[f])]] :
                   nt \in [Range(Folders) -> 0..MaxTrainImgs],
                   ne \in [Range(Folders) -> 0..MaxTestImgs]}
    /\ mn_pc = "load"
    /\ mn_ix = 0
    /\ mn_x_train = <<>>
    /\ mn_x_test = <<>>
    /\ mn_y_train = <<>>
    /\ mn_y_test = <<>>
    /\ mn_handed = {}

NextMN ==
    \/ LoadLabel
    \/ ShuffleTrainset
    \/ ShuffleTestset
    \/ PreProcess
    \/ FitModel
    \/ ExploreResults

StartMN == InitMN /\ IdleHPO /\ IdleNB /\ IdleFS /\ IdleSP /\ IdleSK /\ IdleTK /\ IdlePR

SpecMN == StartMN /\ [][NextMN]_vars

(***************************************************************************)
(* The "Prepare the Data" cell of an MNIST notebook, run by itself, once   *)
(* or again: delete local_dir, download, unpack, list the files, keep      *)
(* every Nth and remove the others.                                        *)
(***************************************************************************)

\* Largest number of images in the training (testing) directory of the archive.
MaxArchive == 3

\* Largest number of runs of the cell that are counted.
MaxCellRuns == 2

\* The cell run again from the listing of the files, without a new download.
FirstStepGlob == "glob"

\* the first command of the cell: !rm -rf {local_dir}
FirstStep == "rm"

\* the files of the archive once unpacked under local_dir
Unpacked(n, archive) ==
    {Image(n, "training", i) : i \in 1..archive[1]} \cup {Image(n, "testing", i) : i \in 1..archive[2]}

\* !rm -rf {local_dir}
PrRmRf ==
    /\ pr_pc = "rm"
    /\ pr_files' = {}
    /\ pr_pc' = "cp"
    /\ UNCHANGED <<pr_nb, pr_archive, pr_train_files, pr_test_files, pr_keep, pr_pending,
                   pr_removed, pr_runs, pr_first>>
    /\ UNCHANGED notPR

\* !mkdir -p {local_dir}; !aws s3 cp s3://fast-ai-imageclas/mnist_png.tgz {local_dir}
\* the archive is written, or the download fails and nothing is written; a
\* failing shell command does not raise, the cell goes on
PrDownload ==
    /\ pr_pc = "cp"
    /\ \/ pr_files' = pr_files \cup {Tgz(pr_nb)}
       \/ pr_files' = pr_files
    /\ pr_pc' = "tar"
    /\ UNCHANGED <<pr_nb, pr_archive, pr_train_files, pr_test_files, pr_keep, pr_pending,
                   pr_removed, pr_runs, pr_first>>
    /\ UNCHANGED notPR

\* !tar zxf {local_dir}/mnist_png.tgz -C {local_dir}/ --strip-components=1
\* tar fails, without raising, when the archive is not there
PrUntar ==
    /\ pr_pc = "tar"
    /\ pr_files' = IF Tgz(pr_nb) \in pr_files THEN pr_files \cup Unpacked(pr_nb, pr_archive)
                   ELSE pr_files
    /\ pr_pc' = "glob"
    /\ UNCHANGED <<pr_nb, pr_archive, pr_train_files, pr_test_files, pr_keep, pr_pending,
                   pr_removed, pr_runs, pr_first>>
    /\ UNCHANGED notPR

\* train_files = sorted(list(glob.iglob(...))), test_files likewise, the two
\* [::reduction_factor] slices, and the start of the first deletion loop
PrGlob ==
    /\ pr_pc = "glob"
    /\ LET tr == SortedSeq({f \in pr_files : f[2] = "training/2"})
           te == SortedSeq({f \in pr_files : f[2] = "testing/2"})
       IN  /\ pr_train_files' = tr
           /\ pr_test_files' = te
           /\ pr_keep' = <<EveryNth(tr, reduction_factor), EveryNth(te, reduction_factor)>>
           /\ pr_pending' = SymDiff(tr, EveryNth(tr, reduction_factor))
    /\ pr_removed' = <<>>
    /\ pr_pc' = "remove_train"
    /\ UNCHANGED <<pr_nb, pr_archive, pr_files, pr_runs, pr_first>>
    /\ UNCHANGED notPR

\* os.remove(fname) for one fname of the set the loop runs over (a set has no
\* order of its own); FileNotFoundError ends the cell
PrRemove ==
    /\ pr_pc \in {"remove_train", "remove_test"}
    /\ \E f \in pr_pending :
          /\ pr_pending' = pr_pending \ {f}
          /\ IF f \in pr_files
             THEN /\ pr_files' = pr_files \ {f}
                  /\ pr_removed' = Append(pr_removed, f)
                  /\ UNCHANGED pr_pc
             ELSE /\ pr_pc' = "error"
                  /\ UNCHANGED <<pr_files, pr_removed>>
    /\ UNCHANGED <<pr_nb, pr_archive, pr_train_files, pr_test_files, pr_keep, pr_runs, pr_first>>
    /\ UNCHANGED notPR

\* a deletion loop has visited its whole set: the second loop starts over
\* set(test_files) ^ set(test_files_to_keep), or the cell is over
PrLoopEnd ==
    /\ pr_pc \in {"remove_train", "remove_test"}
    /\ pr_pending = {}
    /\ IF pr_pc = "remove_train"
       THEN /\ pr_pending' = SymDiff(pr_test_files, pr_keep[2])
            /\ pr_pc' = "remove_test"
            /\ UNCHANGED <<pr_runs, pr_first>>
       ELSE /\ pr_pc' = "done"
            /\ pr_runs' = Min(pr_runs + 1, MaxCellRuns)
            /\ pr_first' = IF pr_runs = 0 THEN pr_files ELSE pr_first
            /\ UNCHANGED pr_pending
    /\ UNCHANGED <<pr_nb, pr_archive, pr_files, pr_train_files, pr_test_files, pr_keep,
                   pr_removed>>
    /\ UNCHANGED notPR

\* the cell is run again
PrRerun ==
    /\ pr_pc = "done"
    /\ pr_pc' = FirstStep
    /\ UNCHANGED <<pr_nb, pr_archive, pr_files, pr_train_files, pr_test_files, pr_keep,
                   pr_pending, pr_removed, pr_runs, pr_first>>
    /\ UNCHANGED notPR

InitPR ==
    /\ pr_nb \in {"mnist_local", "mnist_exercise"}
    /\ pr_archive \in (0..MaxArchive) \X (0..MaxArchive)
    /\ pr_files = {}
    /\ pr_pc = "rm"
    /\ pr_train_files = <<>>
    /\ pr_test_files = <<>>
    /\ pr_keep = <<(<<>>), (<<>>)>>
    /\ pr_pending = {}
    /\ pr_removed = <<>>
    /\ pr_runs = 0
    /\ pr_first = {}

NextPR ==
    \/ PrRmRf
    \/ PrDownload
    \/ PrUntar
    \/ PrGlob
    \/ PrRemove
    \/ PrLoopEnd
    \/ PrRerun

StartPR == InitPR /\ IdleHPO /\ IdleNB /\ IdleFS /\ IdleSP /\ IdleSK /\ IdleTK /\ IdleMN

SpecPR == StartPR /\ [][NextPR]_vars

(***************************************************************************)
(* Statements about the HPO wait loop.                                     *)
(***************************************************************************)

\* C1: the wait loop is left only after a status query returned something
\* other than "InProgress": at least one query has been made by then, and the
\* state printed after the loop is neither None nor "InProgress".
C1_ExitOnlyOnFinalStatus ==
    /\ hpo_pc \in {"print", "done"} =>
          /\ hpo_state \notin {"None", "InProgress"}
          /\ queries >= 1
    /\ hpo_pc = "done" =>
          /\ printed = hpo_state
          /\ printed \notin {"None", "InProgress"}

\* The loop polled a job in progress, then saw it stopped and printed that.
C1_Witness == hpo_pc = "done" /\ printed = "Stopped" /\ queries >= 2

\* C2: if the tuning job leaves "InProgress" and no status query raises, the
\* cell reaches its end; the loop is never left while the job is in progress,
\* and as long as the job stays in progress the loop comes back to the query.
C2_TerminatesIffJobEnds ==
    /\ (<>(tuning_status # "InProgress") /\ [](hpo_pc # "error")) => <>(hpo_pc = "done")
    /\ [](hpo_pc \in {"print", "done"} => tuning_status # "InProgress")
    /\ ([](tuning_status = "InProgress") /\ [](hpo_pc # "error")) => []<>(hpo_pc = "query")

\* The loop slept at least once and ended after the job completed.
C2_Witness == hpo_pc = "done" /\ sleeps >= 1 /\ tuning_status = "Completed"

(***************************************************************************)
(* Statements about the train-and-deploy notebooks.                        *)
(***************************************************************************)

\* C3: cells run one after another and estimator.fit blocks: once the fit
\* cell has ended its training job is no longer in progress, and the model
\* artifact location is read, and a Model or an endpoint created, only when
\* the training job has ended.
C3_TrainingEndsBeforeNextStep ==
    /\ ~At("fit") => job_status # "InProgress"
    /\ (model_artifact # "undef" \/ sm_model \/ endpoint # "none") =>
          job_status \in TerminalJob

\* The scikit-learn notebook read the artifact of a completed job and its
\* endpoint is in service.
C3_Witness ==
    /\ nb_kind = "sklearn"
    /\ job_status = "Completed"
    /\ model_artifact = "s3"
    /\ endpoint = "InService"

\* C4: an endpoint in service leaves that state only by the clean-up cell's
\* predictor.delete_endpoint, and once the cells have been run in order
\* through the clean-up cell (whether or not a cell raised) neither the
\* endpoint nor its endpoint configuration exists.
C4_EndpointLiveUntilCleanUp ==
    /\ [][(endpoint = "InService" /\ endpoint' # "InService") =>
             (At("delete") /\ nb_out'["delete"] = "ok")]_vars
    /\ [](At("end") =>
             (endpoint \in {"none", "deleted"} /\ endpoint_config \in {"none", "deleted"}))

\* the same for the runs in which the deploy cell did not raise after it had
\* created the endpoint
C4_HoldsWhenDeployed ==
    /\ [][(endpoint = "InService" /\ endpoint' # "InService") =>
             (At("delete") /\ nb_out'["delete"] = "ok")]_vars
    /\ []((At("end") /\ endpoint # "Failed") =>
             (endpoint \in {"none", "deleted"} /\ endpoint_config \in {"none", "deleted"}))

\* The endpoint served a request and the clean-up cell then removed it.
C4_Witness ==
    /\ nb_out["delete"] = "ok"
    /\ invocations >= 1
    /\ endpoint = "deleted"

\* The deployment failed, the deploy cell raised and the clean-up cell,
\* run after it, raised too: the failed endpoint and its configuration are
\* still there.
C4_FailedDeployWitness ==
    /\ At("end")
    /\ nb_out["deploy"] = "raised"
    /\ nb_out["delete"] = "raised"
    /\ endpoint = "Failed"
    /\ endpoint_config = "exists"

(***************************************************************************)
(* Statements about the files the notebooks share.                         *)
(***************************************************************************)

\* C5: every notebook is independent of the others: no notebook creates,
\* changes or deletes a file that another notebook reads or writes.
C5_NoNotebookTouchesAnothersFiles ==
    \A n1 \in Notebooks : \A n2 \in Notebooks \ {n1} :
        fs_mod[n1] \cap fs_use[n2] = {}

(***************************************************************************)
(* Statements about the train/test split.                                  *)
(***************************************************************************)

\* C6: after a split the train rows and the test rows together are as many
\* as the input rows, no input row is in both parts, and features and labels
\* are split alike: the label at position k of y_train (y_test) is the label
\* of the row at position k of X_train (X_test).
C6_SplitPreservesRows ==
    sp_pc \in {"split", "frames"} =>
        /\ Len(sp_X_train) + Len(sp_X_test) = Len(sp_data)
        /\ Range(sp_X_train) \cap Range(sp_X_test) = {}
        /\ Cardinality(Range(sp_X_train) \cup Range(sp_X_test)) = Len(sp_data)
        /\ Len(sp_y_train) = Len(sp_X_train)
        /\ Len(sp_y_test) = Len(sp_X_test)
        /\ \A k \in 1..Len(sp_X_train) : sp_y_train[k] = sp_target[sp_X_train[k]]
        /\ \A k \in 1..Len(sp_X_test) : sp_y_test[k] = sp_target[sp_X_test[k]]

\* Four rows with both labels among them were split three to one, out of order.
C6_Witness ==
    /\ sp_pc = "frames"
    /\ Len(sp_X_train) = 3
    /\ Len(sp_X_test) = 1
    /\ sp_X_train[1] > sp_X_train[2]
    /\ sp_target[1] # sp_target[2]

(***************************************************************************)
(* Statements about sklearn_training_script.py.                            *)
(***************************************************************************)

\* C7: when the training script has run to completion, the file model.joblib
\* in model_dir exists and holds the dump of the fitted model, and model_fn
\* called with that model_dir afterwards does not raise and returns that
\* model.
C7_SavedModelIsLoaded ==
    sk_pc = "done" =>
        /\ sk_args.model_dir # <<>>
        /\ sk_model # NoModel
        /\ Join(sk_args.model_dir[1], <<"model.joblib">>) \in DOMAIN sk_fs
        /\ sk_fs[Join(sk_args.model_dir[1], <<"model.joblib">>)] = Dump(sk_model)
        /\ Len(sk_loaded) = 1 => sk_loaded[1] # sk_args.model_dir[1]
        /\ (Len(sk_loaded) = 2 /\ sk_loaded[1] = sk_args.model_dir[1]) => sk_loaded[2] = sk_model

\* A run over a model directory that held an older model completed, and
\* model_fn on that directory returned the new model.
C7_Witness ==
    /\ sk_pc = "done"
    /\ LoadPath(LocalModelDir) \in DOMAIN sk_fs0
    /\ Len(sk_loaded) = 2
    /\ sk_loaded[1] = LocalModelDir
    /\ sk_loaded[2] = sk_model
    /\ sk_loaded[2] # StaleModel

\* C8: a run of the training script that ended with an error has written no
\* file and left the file system as it found it; no step is begun twice;
\* after the error nothing more runs; and a model file is written only by a
\* run in which reading both CSV files, selecting the columns, fitting and
\* evaluating have all been done without error.
C8_FailureLeavesNoModel ==
    /\ [](sk_pc = "error" => (sk_written = {} /\ sk_fs = sk_fs0))
    /\ [](\A i \in 1..Len(sk_log) : \A j \in 1..Len(sk_log) : i # j => sk_log[i] # sk_log[j])
    /\ [](sk_written # {} =>
             /\ {"read_train", "read_test", "select", "fit", "test"} \subseteq Range(sk_log)
             /\ sk_pc = "done"
             /\ TrainPath \in DOMAIN sk_fs0
             /\ TestPath \in DOMAIN sk_fs0
             /\ sk_test_df.rows >= 1
             /\ sk_model.fitted_rows >= 1)
    /\ [][sk_pc = "error" => (sk_pc' = "error" /\ sk_log' = sk_log /\ sk_fs' = sk_fs)]_vars

\* The evaluation of a fitted model raised, over a model directory that holds
\* an older model.
C8_Witness ==
    /\ sk_pc = "error"
    /\ Len(sk_log) = 6
    /\ sk_log[6] = "test"
    /\ sk_model # NoModel
    /\ LoadPath(SmModelDir) \in DOMAIN sk_fs
    /\ sk_fs[LoadPath(SmModelDir)] = Dump(StaleModel)

\* C9: when the module is not run as a script, no step of the __main__ block
\* is ever begun (no argument parsing, no reading, no fitting, no saving: the
\* file system stays as it was), and once the import is over model_fn is
\* defined; any step of the block that has begun was begun by a run as a
\* script.
C9_ImportRunsNoTraining ==
    /\ sk_name # "__main__" =>
          /\ sk_log = <<>>
          /\ sk_written = {}
          /\ sk_fs = sk_fs0
          /\ sk_model = NoModel
          /\ sk_pc \in {"start", "guard", "imported"}
    /\ sk_pc = "imported" => (sk_name # "__main__" /\ "model_fn" \in sk_defined)
    /\ sk_log # <<>> => sk_name = "__main__"

\* The module was imported and model_fn, called afterwards, returned the
\* model found in the model directory.
C9_Witness ==
    /\ sk_name = ModuleName
    /\ sk_pc = "imported"
    /\ Len(sk_loaded) = 2
    /\ sk_loaded[2] = StaleModel

(***************************************************************************)
(* Statements about classify.                                              *)
(***************************************************************************)

\* C10: whatever headline classify of a Keras notebook is given, the sequence it hands to the
\* model has exactly 40 entries, all of them integers not below 0; an
\* encoding of at most 40 indices is followed by zeros only, a longer one is
\* cut to 40 of its consecutive entries; and 40 is the model's input_length
\* and the max_seq_len sent to the training job, so predict accepts it.
C10_FixedLengthInput ==
    (tk_nb \in KerasNotebooks /\ tk_result # "none") =>
        /\ Len(tk_passed) = 40
        /\ Len(tk_passed) = input_length
        /\ Len(tk_passed) = max_seq_len
        /\ tk_result = "ok"
        /\ \A k \in 1..Len(tk_passed) : tk_passed[k] \in Nat
        /\ Len(tk_encoded) <= 40 =>
              \A k \in 1..Len(tk_passed) :
                  tk_passed[k] = IF k <= Len(tk_encoded) THEN tk_encoded[k] ELSE 0
        /\ Len(tk_encoded) > 40 =>
              \E off \in 0..(Len(tk_encoded) - 40) :
                  \A k \in 1..Len(tk_passed) : tk_passed[k] = tk_encoded[off + k]

\* A headline of more than 40 known words was cut, and its last word is the
\* last entry handed to the model.
C10_Witness ==
    /\ tk_result = "ok"
    /\ Len(tk_encoded) > 40
    /\ tk_encoded[1] # tk_encoded[Len(tk_encoded)]
    /\ tk_passed[40] = tk_encoded[Len(tk_encoded)]
    /\ tk_nb = "sagemaker"

(***************************************************************************)
(* Statements about the tokenizer's vocabulary.                            *)
(***************************************************************************)

\* what classify hands to the model, computed with the mapping wi
PassedWith(wi) ==
    IF tk_nb \in KerasNotebooks
      THEN PadSequences(TextsToSequences(tk_text, wi, tk_oov), max_length)
      ELSE [k \in 1..max_length |-> StoiLookup(wi, Pad(Preprocess(tk_text), max_length)[k])]

\* C11: once tokenize_and_pad_docs has built the tokenizer, its word-to-index
\* mapping stays as it was built: no later step changes it, get_word_embeddings
\* builds its matrix with that mapping, and what classify hands to the model
\* is computed with that mapping.
C11_VocabularyBuiltOnce ==
    /\ [][tk_cell # "start" => tk_word_index' = tk_word_index]_vars
    /\ [](tk_cell # "start" => tk_word_index = tk_built_index)
    /\ [](tk_cell = "embedded" => tk_embedding_index = tk_built_index)
    /\ [](tk_result # "none" => tk_passed = PassedWith(tk_built_index))

\* C11 holds in the Keras notebooks: the word_index stays as it was built,
\* get_word_embeddings uses it, and every index classify produces is an index
\* of it or the out-of-vocabulary index.
C11_KerasVocabularyBuiltOnce ==
    /\ [][(tk_nb \in KerasNotebooks /\ tk_cell # "start") => tk_word_index' = tk_word_index]_vars
    /\ [](tk_nb \in KerasNotebooks =>
             /\ tk_cell # "start" => tk_word_index = tk_built_index
             /\ tk_cell = "embedded" => tk_embedding_index = tk_built_index
             /\ tk_result # "none" =>
                   /\ tk_passed = PassedWith(tk_built_index)
                   /\ tk_encoded = TextsToSequences(tk_text, tk_built_index, tk_oov)
                   /\ \A k \in 1..Len(tk_encoded) :
                          \/ \E w \in DOMAIN tk_embedding_index :
                                tk_embedding_index[w] = tk_encoded[k]
                          \/ tk_oov /\ tk_encoded[k] = 1)

\* In the PyTorch notebooks classify adds keys to stoi and changes no index:
\* a word of the built vocabulary keeps its index, an added key has the index
\* of the unknown token, and what is handed to the model is what the built
\* mapping gives.
C11_TorchIndicesKept ==
    (tk_nb \in TorchNotebooks /\ tk_cell # "start") =>
        /\ DOMAIN tk_built_index \subseteq DOMAIN tk_word_index
        /\ \A w \in DOMAIN tk_word_index : tk_word_index[w] = StoiLookup(tk_built_index, w)
        /\ tk_cell = "embedded" => tk_embedding_index = tk_built_index
        /\ tk_result # "none" => tk_passed = PassedWith(tk_built_index)

\* A headline with a word the vocabulary lacks was classified in a Keras
\* notebook after the embeddings were loaded.
C11_Witness ==
    /\ tk_nb \in KerasNotebooks
    /\ tk_cell = "embedded"
    /\ tk_result = "ok"
    /\ \E k \in 1..Len(tk_text) : tk_text[k] = "zzz"
    /\ \E k \in 1..Len(tk_text) : tk_text[k] = "were"
    /\ DOMAIN tk_embedding_index = {"the", "markets", "were"}

\* classify of a PyTorch notebook was given a headline with a word the
\* vocabulary lacks: stoi has that word as a key now.
C11_TorchWitness ==
    /\ tk_nb \in TorchNotebooks
    /\ tk_result = "ok"
    /\ "zzz" \in DOMAIN tk_word_index
    /\ "zzz" \notin DOMAIN tk_built_index
    /\ tk_passed[4] = 0
    /\ tk_passed[6] = 1

(***************************************************************************)
(* Statements about the MNIST Local notebook.                              *)
(***************************************************************************)

\* the PNG files of the training or testing directory
FilesOf(split) == UNION {Range(mn_dir[split][f]) : f \in Range(Folders)}

\* position k of the labels is the index of the folder the image at position k
\* was read from, and the images are files of the split, none twice
AlignedWithFolders(x, y, split) ==
    /\ Len(x) = Len(y)
    /\ \A k \in 1..Len(x) :
          /\ x[k].file \in FilesOf(split)
          /\ y[k] \in 0..(Len(Folders) - 1)
          /\ Folders[y[k] + 1] = x[k].file[2]
    /\ \A j \in 1..Len(x) : \A k \in 1..Len(x) : j # k => x[j].file # x[k].file

\* C12 (as claimed): after the pre-processing cell, for either image data
\* format, every sample of x_train and of x_test has one dimension more than
\* the 28 x 28 image loaded, x_train has as many samples as y_train and x_test
\* as many as y_test.
C12_ChannelDimensionAdded ==
    mn_pc \in {"fit", "explore", "done", "error"} =>
        /\ \A k \in 1..Len(mn_x_train) : Len(mn_x_train[k].shape) = 3
        /\ \A k \in 1..Len(mn_x_test) : Len(mn_x_test[k].shape) = 3
        /\ Len(mn_x_train) = Len(mn_y_train)
        /\ Len(mn_x_test) = Len(mn_y_test)

\* C13 (as claimed): every image handed to the model, as training data, as
\* validation data or to model.predict, has pixel values between 0 and 1 and
\* three dimensions, the channel dimension of size 1 where the image data
\* format puts it.
C13_ModelInputNormalized ==
    \A h \in mn_handed :
        /\ h.px[1] <= h.px[2]
        /\ Len(h.shape) = 3
        /\ h.shape[IF mn_format = "channels_first" THEN 1 ELSE 3] = 1

\* C16: while and after the images are loaded (before the shuffle), x_train
\* and y_train have equal length, x_test and y_test have equal length, the
\* label at position k is the index of the folder the image at position k was
\* read from, and once the loop is over every file of both directories has
\* been loaded.
C16_LabelFromFolder ==
    /\ mn_pc \in {"load", "shuffle_train"} =>
          /\ AlignedWithFolders(mn_x_train, mn_y_train, "training")
          /\ AlignedWithFolders(mn_x_test, mn_y_test, "testing")
    /\ mn_pc = "shuffle_train" =>
          /\ Len(mn_x_train) = Cardinality(FilesOf("training"))
          /\ Len(mn_x_test) = Cardinality(FilesOf("testing"))

\* Both folders gave a training image and a testing image.
C16_Witness ==
    /\ mn_pc = "shuffle_train"
    /\ mn_y_train = <<0, 1>>
    /\ mn_y_test = <<0, 1>>
    /\ mn_x_train[2].file[2] = "7"

\* C17: after the two shuffles the lengths are what they were after loading,
\* the images are the same files, none lost or doubled, and every image is
\* still paired with the index of the folder it was loaded from.
C17_ShuffleKeepsPairs ==
    mn_pc \in {"shuffle_test", "preprocess"} =>
        /\ AlignedWithFolders(mn_x_train, mn_y_train, "training")
        /\ Len(mn_x_train) = Cardinality(FilesOf("training"))
        /\ AlignedWithFolders(mn_x_test, mn_y_test, "testing")
        /\ Len(mn_x_test) = Cardinality(FilesOf("testing"))

\* Both sets were shuffled out of the order they were loaded in.
C17_Witness ==
    /\ mn_pc = "preprocess"
    /\ mn_y_train = <<1, 0>>
    /\ mn_y_test = <<1, 0>>
    /\ mn_x_train[1].file[2] = "7"

(***************************************************************************)
(* Statements about the MNIST data reduction.                              *)
(***************************************************************************)

\* positions 0, N, 2N, ... of a sorted file list
EveryNthPosition(files) ==
    {files[i] : i \in {j \in 1..Len(files) : (j - 1) % reduction_factor = 0}}

\* C14: train_files_to_keep and test_files_to_keep are the files at positions
\* 0, N, 2N, ... of the sorted lists, as many as the ceiling of (number of
\* files / reduction_factor); os.remove is never called on a kept file nor
\* twice on one file; and when the cell is over the files left in the training
\* and testing directories are exactly the kept ones and every dropped file
\* has been removed.
C14_KeepsEveryNth ==
    /\ pr_pc \in {"remove_train", "remove_test", "done"} =>
          /\ Range(pr_keep[1]) = EveryNthPosition(pr_train_files)
          /\ Range(pr_keep[2]) = EveryNthPosition(pr_test_files)
          /\ Len(pr_keep[1]) * reduction_factor >= Len(pr_train_files)
          /\ (Len(pr_keep[1]) - 1) * reduction_factor < Len(pr_train_files)
          /\ Len(pr_keep[2]) * reduction_factor >= Len(pr_test_files)
          /\ (Len(pr_keep[2]) - 1) * reduction_factor < Len(pr_test_files)
          /\ Range(pr_removed) \cap (Range(pr_keep[1]) \cup Range(pr_keep[2])) = {}
          /\ \A j \in 1..Len(pr_removed) : \A k \in 1..Len(pr_removed) :
                j # k => pr_removed[j] # pr_removed[k]
    /\ pr_pc = "done" =>
          /\ {f \in pr_files : f[2] = "training/2"} = Range(pr_keep[1])
          /\ {f \in pr_files : f[2] = "testing/2"} = Range(pr_keep[2])
          /\ Range(pr_removed) =
                (Range(pr_train_files) \cup Range(pr_test_files))
                    \ (Range(pr_keep[1]) \cup Range(pr_keep[2]))
    /\ pr_pc # "error"

\* Of three training and three testing images the second of each was removed.
C14_Witness ==
    /\ pr_pc = "done"
    /\ Len(pr_train_files) = 3
    /\ Len(pr_test_files) = 3
    /\ Len(pr_removed) = 2
    /\ Cardinality({f \in pr_files : f[2] = "training/2"}) = 2

\* the archive is under local_dir: the run that left these files downloaded it
Downloaded(files) == Tgz(pr_nb) \in files

\* C15: running the cell again is idempotent: whenever a run that deleted
\* local_dir and downloaded and unpacked the archive again is over, the files
\* under local_dir are the files that the first run left when it had
\* downloaded and unpacked the archive, and the run has listed the whole
\* archive again, so that nothing is reduced twice.
C15_RerunIsIdempotent ==
    (pr_pc = "done" /\ pr_runs >= 1 /\ Downloaded(pr_first) /\ Downloaded(pr_files)) =>
        /\ pr_files = pr_first
        /\ Len(pr_train_files) = pr_archive[1]
        /\ Len(pr_test_files) = pr_archive[2]

\* The cell was run a second time over a directory it had reduced before,
\* downloading and unpacking the archive both times.
C15_Witness ==
    /\ pr_pc = "done"
    /\ pr_runs >= 2
    /\ pr_archive = <<3, 2>>
    /\ Downloaded(pr_first)
    /\ Downloaded(pr_files)
    /\ Cardinality(pr_files) = 4

(***************************************************************************)
(* Statements about the feature and target columns of the training script  *)
(***************************************************************************)

\* the script has built its four sets
Selected == sk_pc \in {"fit", "test", "save", "done"} \/ (sk_pc = "error" /\ "fit" \in Range(sk_log))

\* C18: X_train and X_test carry the same column names in the same order, the
\* --features value split on whitespace; y_train and y_test are both the
\* --target_variable column; and the features the notebook configures hold
\* neither the target column nor the unnamed index column of the CSV files.
C18_ConsistentFeatureOrder ==
    /\ Selected =>
          /\ sk_sets.X_train.columns = Split(sk_argv.features[1])
          /\ sk_sets.X_test.columns = sk_sets.X_train.columns
          /\ sk_sets.y_train.columns = sk_argv.target_variable
          /\ sk_sets.y_test.columns = sk_sets.y_train.columns
    /\ (Selected /\ sk_argv.features = <<ConfiguredFeatures>>
            /\ sk_argv.target_variable = <<"target">>) =>
          /\ "target" \notin Range(sk_sets.X_train.columns)
          /\ "Unnamed: 0" \notin Range(sk_sets.X_train.columns)
          /\ "target" \notin Range(sk_sets.X_test.columns)
          /\ "Unnamed: 0" \notin Range(sk_sets.X_test.columns)
          /\ "target" \in Range(sk_train_df.columns)
          /\ "Unnamed: 0" \in Range(sk_train_df.columns)

\* the script selected features given in another order than the CSV columns
C18_Witness ==
    /\ Selected
    /\ sk_argv.features = <<(<<"ZN", " ", " ", "CRIM">>)>>
    /\ sk_sets.X_test.columns = <<"ZN", "CRIM">>
    /\ sk_sets.y_test.columns = <<"target">>

\* the script selected the features the notebook configures
C18_ConfiguredWitness ==
    /\ Selected
    /\ sk_argv.features = <<ConfiguredFeatures>>
    /\ Len(sk_sets.X_train.columns) = Len(feature_names)
    /\ sk_model.features = feature_names

(***************************************************************************)
(* Statements about the arguments of the training script                   *)
(***************************************************************************)

\* the run ended at the parsing step
EndedAtParse == sk_pc \in {"error", "exit"} /\ sk_log = <<"parse">>

\* the script has parsed its command line
Parsed ==
    /\ sk_name = "__main__"
    /\ sk_log # <<>>
    /\ ~EndedAtParse

\* C19: each directory argument is the value of its option on the command
\* line when the option is there and the value of its environment variable
\* otherwise; n_estimators is 10 and min_samples_leaf 3 when not given; and
\* a command line with an option the script does not define never ends the
\* run at the parsing step, the other options being read as without it.
C19_ArgumentsAndDefaults ==
    /\ Parsed =>
          /\ sk_args.model_dir = IF sk_argv.model_dir # <<>> THEN sk_argv.model_dir
                                 ELSE sk_env.SM_MODEL_DIR
          /\ sk_args.train_dir = IF sk_argv.train_dir # <<>> THEN sk_argv.train_dir
                                 ELSE sk_env.SM_CHANNEL_TRAIN
          /\ sk_args.test_dir = IF sk_argv.test_dir # <<>> THEN sk_argv.test_dir
                                ELSE sk_env.SM_CHANNEL_TEST
          /\ sk_args.n_estimators = IF sk_argv.n_estimators # <<>> THEN sk_argv.n_estimators[1]
                                    ELSE 10
          /\ sk_args.min_samples_leaf = 3
    /\ ~EndedAtParse

\* the same for command lines whose extra option no defined option starts with
C19_HoldsWithoutAbbreviation ==
    (sk_argv.extra = <<>> \/ Abbreviates(sk_argv.extra[1]) = {}) => C19_ArgumentsAndDefaults

\* the script parsed a command line that has an undefined option and lacks
\* the directories, inside a training container
C19_IgnoredWitness ==
    /\ Parsed
    /\ sk_argv.extra # <<>>
    /\ Abbreviates(sk_argv.extra[1]) = {}
    /\ sk_argv.model_dir = <<>>
    /\ sk_argv.train_dir = <<>>
    /\ sk_argv.n_estimators = <<>>
    /\ sk_args.model_dir = <<SmModelDir>>
    /\ sk_args.train_dir = <<SmTrainDir>>
    /\ sk_args.n_estimators = 10
    /\ sk_pc = "done"

(***************************************************************************)
(* Statements about a run of the training script without a model directory *)
(***************************************************************************)

\* the script is run, --model_dir is not given on the command line and
\* SM_MODEL_DIR is not set
NoModelDir ==
    /\ sk_name = "__main__"
    /\ sk_argv.model_dir = <<>>
    /\ sk_env.SM_MODEL_DIR = <<>>

\* a CSV file as the notebook writes it: the target column and a row
WholeCsv(fs, path) ==
    /\ path \in DOMAIN fs
    /\ "target" \in {fs[path][1][k] : k \in 1..Len(fs[path][1])}
    /\ fs[path][2] >= 1

\* the options the script defines, but for --model_dir, are given as in the
\* notebook's local run, and the files are there
OtherInputsValid ==
    /\ sk_argv.train_dir = <<DataDir>>
    /\ sk_argv.test_dir = <<DataDir>>
    /\ WholeCsv(sk_fs0, TrainPath)
    /\ WholeCsv(sk_fs0, TestPath)
    /\ sk_argv.features # <<>>
    /\ sk_argv.target_variable = <<"target">>

\* the run began its save step
BeganSave == \E i \in 1..Len(sk_log) : sk_log[i] = "save"

\* C20: a run of the training script with neither --model_dir given nor
\* SM_MODEL_DIR set never completes and writes no file; it begins the save
\* step only after both CSV files have been read, the model fitted and the
\* errors at the 10th, 50th and 90th percentile printed, and the error
\* occurs in that step; with its other inputs valid, it ends at no other step.
C20_FailsOnlyAtSave ==
    NoModelDir =>
        /\ sk_pc # "done"
        /\ sk_written = {}
        /\ sk_fs = sk_fs0
        /\ BeganSave =>
              /\ sk_pc = "error"
              /\ sk_log = <<"parse", "read_train", "read_test", "select", "fit", "test", "save">>
              /\ sk_train_df.rows >= 1
              /\ sk_test_df.rows >= 1
              /\ sk_model.fitted_rows = sk_train_df.rows
              /\ sk_printed = <<10, 50, 90>>
        /\ (OtherInputsValid /\ sk_pc \in {"error", "exit"}) => sk_log[Len(sk_log)] = "save"

\* the same for command lines on which nothing is read as an abbreviation
\* (no extra option, or one that no option string starts with)
C20_HoldsWithoutAbbreviation ==
    (sk_argv.extra = <<>> \/ Abbreviates(sk_argv.extra[1]) = {}) => C20_FailsOnlyAtSave

\* the run without a model directory failed in its save step, over model
\* directories that hold an older model, which is still there
C20_Witness ==
    /\ NoModelDir
    /\ OtherInputsValid
    /\ sk_pc = "error"
    /\ Len(sk_log) = 7
    /\ sk_log[7] = "save"
    /\ sk_printed = <<10, 50, 90>>
    /\ sk_model # NoModel
    /\ sk_model # StaleModel
    /\ LoadPath(LocalModelDir) \in DOMAIN sk_fs
    /\ sk_fs[LoadPath(LocalModelDir)] = Dump(StaleModel)

\* --model_dir is not given and SM_MODEL_DIR is not set, and the run wrote
\* the model all the same: --model model/ was read as --model_dir model/
C20_WrittenWitness ==
    /\ NoModelDir
    /\ sk_argv.extra # <<>>
    /\ Abbreviates(sk_argv.extra[1]) = {"model_dir"}
    /\ sk_pc = "done"
    /\ sk_written = {SavePath(LocalModelDir)}

(***************************************************************************)
(* Statements about the pace of the HPO wait loop                          *)
(***************************************************************************)

\* C21: the wait loop polls once a minute.  The first status query is made
\* with no sleep and no "-" before it; every later query is made after
\* exactly one sleep, of 60 seconds, and one "-" since the query before it,
\* so that as many sleeps and dashes as queries have gone before it; and once
\* a query has returned a status other than "InProgress" the loop neither
\* sleeps nor prints a "-" nor queries again.
C21_PollsOnceAMinute ==
    /\ [](hpo_pc = "query" =>
             IF queries = 0
             THEN sleeps = 0 /\ dashes = 0 /\ since_query = 0 /\ waited = 0
             ELSE since_query = 1 /\ waited = 60 /\ sleeps = queries /\ dashes = queries)
    /\ [](dashes = sleeps)
    /\ [][hpo_state \notin {"None", "InProgress"} =>
             /\ sleeps' = sleeps
             /\ dashes' = dashes
             /\ waited' = waited
             /\ queries' = queries
             /\ hpo_state' = hpo_state]_vars

\* The loop made three queries with two sleeps between them and ended on the
\* status the third one returned.
C21_Witness ==
    /\ hpo_pc = "done"
    /\ queries = 3
    /\ sleeps = 2
    /\ dashes = 2
    /\ waited = 0
    /\ printed = "Completed"

====
